---------------------------- MODULE Spec2Model ----------------------------
(***************************************************************************)
(* Model of the cost valuation engine of factorio-cost-calculator          *)
(* (src/api/model.py, src/api/controller.py).                              *)
(*                                                                         *)
(* Numbers.  Python floats are modelled as extended rationals: a pair      *)
(* <<n, d>> in lowest terms with d > 0 is the finite value n/d, <<1, 0>>   *)
(* is +inf, <<-1, 0>> is -inf and <<0, 0>> is NaN.  The operators follow   *)
(* IEEE-754 for the special values (inf - inf, 0 * inf and inf / inf are   *)
(* NaN, every comparison with NaN is false) and Python for division by a   *)
(* zero divisor (ZeroDivisionError).  Rounding, overflow to inf and the    *)
(* sign of zero are not modelled.                                          *)
(*                                                                         *)
(* Strings are sequences of one-character strings, so that concatenation   *)
(* and substring tests are computed.                                       *)
(*                                                                         *)
(* Python dicts are sequences of <<key, value>> pairs in insertion order.  *)
(*                                                                         *)
(* Python evaluates an argument once, before the call.  Eval1, Eval2 and   *)
(* Eval3 do the same for an operator: they bind the arguments to values    *)
(* and apply the operator to those.                                        *)
(***************************************************************************)
EXTENDS Integers, Sequences, FiniteSets, TLC

Eval1(F(_), a) == CHOOSE r \in {F(x) : x \in {a}} : TRUE

Eval2(F(_, _), a, b) == CHOOSE r \in {F(x, y) : x \in {a}, y \in {b}} : TRUE

Eval3(F(_, _, _), a, b, c) ==
    CHOOSE r \in {F(x, y, z) : x \in {a}, y \in {b}, z \in {c}} : TRUE

(***************************************************************************)
(* Extended rational arithmetic (Python float)                             *)
(***************************************************************************)
Abs(x) == IF x < 0 THEN -x ELSE x

Sign(x) == IF x < 0 THEN -1 ELSE IF x > 0 THEN 1 ELSE 0

RECURSIVE Gcd(_, _)
Gcd(a, b) == IF b = 0 THEN a ELSE Gcd(b, a % b)

\* n/d in lowest terms with a positive denominator; d = 0 gives inf, -inf or NaN
Norm(n, d) ==
    IF d = 0 THEN <<Sign(n), 0>>
    ELSE LET g == Gcd(Abs(n), Abs(d))
         IN  <<Sign(d) * (n \div g), Abs(d) \div g>>

Num(n) == <<n, 1>>

Frac(n, d) == Norm(n, d)

Zero == <<0, 1>>

One == <<1, 1>>

Inf == <<1, 0>>

NegInf == <<-1, 0>>

NaN == <<0, 0>>

IsNaN(a) == a = NaN

IsFinite(a) == a[2] # 0

AddValues(a, b) ==
    IF a[2] = 0 \/ b[2] = 0
    THEN IF IsNaN(a) \/ IsNaN(b) THEN NaN
         ELSE IF a[2] = 0 /\ b[2] = 0
              THEN (IF a[1] = b[1] THEN a ELSE NaN)
              ELSE (IF a[2] = 0 THEN a ELSE b)
    ELSE LET g == Gcd(a[2], b[2])
         IN  Norm(a[1] * (b[2] \div g) + b[1] * (a[2] \div g), (a[2] \div g) * b[2])

\* float.__add__
Add(a, b) == Eval2(AddValues, a, b)

NegValue(a) == <<-a[1], a[2]>>

\* float.__neg__
Neg(a) == Eval1(NegValue, a)

\* float.__sub__
Sub(a, b) == Add(a, Neg(b))

MulValues(a, b) ==
    IF a[2] = 0 \/ b[2] = 0
    THEN <<Sign(a[1]) * Sign(b[1]), 0>>
    ELSE LET g1 == Gcd(Abs(a[1]), b[2])
             g2 == Gcd(Abs(b[1]), a[2])
         IN  Norm((a[1] \div g1) * (b[1] \div g2), (a[2] \div g2) * (b[2] \div g1))

\* float.__mul__
Mul(a, b) == Eval2(MulValues, a, b)

\* float.__truediv__ raises ZeroDivisionError for a zero divisor
DivRaises(a, b) == b = Zero

DivValues(a, b) ==
    IF b[2] = 0
    THEN (IF IsNaN(b) \/ a[2] = 0 THEN NaN ELSE Zero)
    ELSE IF b[1] = 0 THEN NaN
    ELSE MulValues(a, <<Sign(b[1]) * b[2], Abs(b[1])>>)

\* float.__truediv__ for a non-zero divisor (NaN stands in when DivRaises)
Div(a, b) == Eval2(DivValues, a, b)

LtValues(a, b) ==
    /\ ~IsNaN(a)
    /\ ~IsNaN(b)
    /\ IF a[2] = 0 /\ b[2] = 0 THEN a[1] < b[1]
       ELSE IF a[2] = 0 THEN a[1] < 0
       ELSE IF b[2] = 0 THEN b[1] > 0
       ELSE LET g == Gcd(a[2], b[2])
            IN  a[1] * (b[2] \div g) < b[1] * (a[2] \div g)

\* float.__lt__ : false whenever one side is NaN
Lt(a, b) == Eval2(LtValues, a, b)

\* float.__gt__
Gt(a, b) == Lt(b, a)

\* float.__le__
LeValues(a, b) == ~IsNaN(a) /\ ~IsNaN(b) /\ ~LtValues(b, a)

Le(a, b) == Eval2(LeValues, a, b)

\* truth value of a float: only zero is false
Truthy(a) == a # Zero

(***************************************************************************)
(* Python dict: a sequence of <<key, value>> pairs in insertion order      *)
(***************************************************************************)
EmptyDict == <<>>

Keys(d) == [i \in 1..Len(d) |-> d[i][1]]

KeySet(d) == {d[i][1] : i \in 1..Len(d)}

Has(d, k) == \E i \in 1..Len(d) : d[i][1] = k

IndexOf(d, k) == CHOOSE i \in 1..Len(d) : d[i][1] = k

GetValue(d, k) == d[IndexOf(d, k)][2]

\* d[k]
Get(d, k) == Eval2(GetValue, d, k)

\* d.get(k, default)
GetOr(d, k, default) == IF Has(d, k) THEN Get(d, k) ELSE default

PutValue(d, k, v) ==
    IF Has(d, k)
    THEN [i \in 1..Len(d) |-> IF d[i][1] = k THEN <<k, v>> ELSE d[i]]
    ELSE Append(d, <<k, v>>)

\* d[k] = v : an existing key keeps its position
Put(d, k, v) == Eval3(PutValue, d, k, v)

DelValue(d, k) == SelectSeq(d, LAMBDA p : p[1] # k)

\* del d[k]
Del(d, k) == Eval2(DelValue, d, k)

\* dict(pairs) / a dict comprehension: a repeated key keeps its first position, last value
RECURSIVE FromPairValues(_)
FromPairValues(ps) ==
    IF ps = <<>> THEN EmptyDict
    ELSE Put(FromPairValues(SubSeq(ps, 1, Len(ps) - 1)), ps[Len(ps)][1], ps[Len(ps)][2])

FromPairs(ps) == Eval1(FromPairValues, ps)

\* d.update(e)
RECURSIVE UpdateValues(_, _)
UpdateValues(d, e) ==
    IF e = <<>> THEN d
    ELSE Put(UpdateValues(d, SubSeq(e, 1, Len(e) - 1)), e[Len(e)][1], e[Len(e)][2])

Update(d, e) == Eval2(UpdateValues, d, e)

(***************************************************************************)
(* Strings                                                                 *)
(***************************************************************************)
\* needle in hay
Contains(hay, needle) ==
    \E i \in 0..(Len(hay) - Len(needle)) :
        SubSeq(hay, i + 1, i + Len(needle)) = needle

\* str(q) for a quality tier
QualityDigit(q) == <<"1", "2", "3", "4", "5">>[q]

\* s.startswith(prefix)
StartsWith(s, prefix) == Len(s) >= Len(prefix) /\ SubSeq(s, 1, Len(prefix)) = prefix

\* s.removeprefix(prefix)
RemovePrefix(s, prefix) ==
    IF StartsWith(s, prefix) THEN SubSeq(s, Len(prefix) + 1, Len(s)) ELSE s

DecimalDigits == <<"0", "1", "2", "3", "4", "5", "6", "7", "8", "9">>

\* the characters \d matches
IsDigit(c) == \E d \in 1..Len(DecimalDigits) : DecimalDigits[d] = c

DigitValue(c) == (CHOOSE d \in 1..Len(DecimalDigits) : DecimalDigits[d] = c) - 1

\* str(n) of a non-negative int, as an f-string formats it
RECURSIVE IntToStr(_)
IntToStr(n) ==
    IF n < 10 THEN <<DecimalDigits[n + 1]>>
    ELSE Append(IntToStr(n \div 10), DecimalDigits[(n % 10) + 1])

\* int(s) of a string of decimal digits
RECURSIVE StrToInt(_)
StrToInt(s) ==
    IF s = <<>> THEN 0
    ELSE 10 * StrToInt(SubSeq(s, 1, Len(s) - 1)) + DigitValue(s[Len(s)])

(***************************************************************************)
(* src/api/model.py : value types                                          *)
(***************************************************************************)
MIN_QUALITY == 1

MAX_QUALITY == 5

\* Item(name=..., quality=..., is_fluid=...)
Item(name, quality, is_fluid) ==
    [name |-> name, quality |-> quality, is_fluid |-> is_fluid]

\* Fluid(name)
Fluid(name) == Item(name, 1, TRUE)

\* MakeItem(name, quality, is_fluid)
MakeItem(name, quality, is_fluid) ==
    IF is_fluid THEN Fluid(name) ELSE Item(name, quality, FALSE)

FluidPrefix == <<"f", "l", "u", "i", "d", "-">>

QualityMark == <<"-", "q">>

\* Item.serialize
serialize(self) ==
    IF self.is_fluid THEN FluidPrefix \o self.name
    ELSE IF self.quality = 1 THEN self.name
    ELSE self.name \o QualityMark \o IntToStr(self.quality)

\* the positions where "-q" and a digit start: where (.*) of the pattern may end
QualityMarks(data) ==
    { i \in 1..(Len(data) - 2) :
        SubSeq(data, i, i + 1) = QualityMark /\ IsDigit(data[i + 2]) }

\* the end of the run of digits that starts at position i : what the greedy \d+ takes
DigitsEnd(data, i) ==
    CHOOSE j \in i..Len(data) :
        /\ \A k \in i..j : IsDigit(data[k])
        /\ j = Len(data) \/ ~IsDigit(data[j + 1])

\* Item.deserialize of a str; re.match anchors the pattern at the start only and
\* the greedy (.*) ends at the last position it can
deserialize(data) ==
    IF StartsWith(data, FluidPrefix)
    THEN Item(RemovePrefix(data, FluidPrefix), 1, TRUE)
    ELSE IF QualityMarks(data) # {}
    THEN LET i == CHOOSE m \in QualityMarks(data) : \A o \in QualityMarks(data) : o <= m
         IN  Item(SubSeq(data, 1, i - 1),
                  StrToInt(SubSeq(data, i + 2, DigitsEnd(data, i + 2))), FALSE)
    ELSE Item(data, 1, FALSE)

BASE_RESOURCE == Item(<<"r", "e", "s", "o", "u", "r", "c", "e">>, 1, FALSE)

\* Bonus(name=..., speed=..., productivity=..., quality=...)
Bonus(name, speed, productivity, quality) ==
    [name |-> name, speed |-> speed, productivity |-> productivity, quality |-> quality]

ZERO_BONUS == Bonus(<<"z", "e", "r", "o">>, Zero, Zero, Zero)

\* Bonus.__add__
BonusAdd(a, b) ==
    Bonus(<<>>, Add(a.speed, b.speed), Add(a.productivity, b.productivity),
          Add(a.quality, b.quality))

\* Bonus.__mul__ / Bonus.__rmul__
BonusMul(a, scale) ==
    Bonus(a.name, Mul(a.speed, scale), Mul(a.productivity, scale), Mul(a.quality, scale))

\* num_beacons ** 0.5 (num_beacons is drawn from the perfect squares)
Sqrt(n) == CHOOSE r \in 0..n : r * r = n

\* beacon: Beacon | None = None
NoBeacon == [none |-> TRUE]

Beacon(name, transmission, effect) ==
    [none |-> FALSE, name |-> name, transmission |-> transmission, effect |-> effect]

Machine(name, speed, module_slots, base_effect) ==
    [name |-> name, speed |-> speed, module_slots |-> module_slots,
     base_effect |-> base_effect]

MachineSettings(name, module, num_beacons, beacon) ==
    [name |-> name, module |-> module, num_beacons |-> num_beacons, beacon |-> beacon]

\* MachineSettings.effect_total
effect_total(self, machine) ==
    LET effect == BonusAdd(machine.base_effect, BonusMul(self.module, Num(machine.module_slots)))
    IN  IF ~self.beacon.none /\ self.num_beacons # 0
        THEN BonusAdd(effect,
                      BonusMul(self.beacon.effect,
                               Mul(self.beacon.transmission, Num(Sqrt(self.num_beacons)))))
        ELSE effect

\* _Clamp (min <= max in every call of the controller)
Clamp(val, min, max) == IF Lt(val, min) THEN min ELSE IF Gt(val, max) THEN max ELSE val

Recipe(name, category, time, inputs, outputs, outputs_no_productivity, quality, allow_productivity, allow_quality, max_productivity, is_mining) ==
    [name |-> name, category |-> category, time |-> time, inputs |-> inputs,
     outputs |-> outputs, outputs_no_productivity |-> outputs_no_productivity,
     quality |-> quality, allow_productivity |-> allow_productivity,
     allow_quality |-> allow_quality, max_productivity |-> max_productivity,
     is_mining |-> is_mining]

Configuration(enable_quality, enable_recycling, machine_time_cost, resource_base_cost, machines, machine_settings_available, mining_productivity, recipe_bonuses, recipes) ==
    [enable_quality |-> enable_quality, enable_recycling |-> enable_recycling,
     machine_time_cost |-> machine_time_cost, resource_base_cost |-> resource_base_cost,
     machines |-> machines, machine_settings_available |-> machine_settings_available,
     mining_productivity |-> mining_productivity, recipe_bonuses |-> recipe_bonuses,
     recipes |-> recipes]

(***************************************************************************)
(* src/api/controller.py : Transformation.__init__                         *)
(***************************************************************************)
\* lines 37-39
ExtraEffects(recipe, recipe_bonuses, machine, machine_settings, mining_bonus) ==
    LET e == BonusAdd(effect_total(machine_settings, machine),
                      GetOr(recipe_bonuses, recipe.name, ZERO_BONUS))
    IN  IF recipe.is_mining THEN BonusAdd(e, mining_bonus) ELSE e

\* lines 41-42
Rate(recipe, machine, extra_effects) ==
    LET speed_multiplier == Clamp(Add(One, extra_effects.speed), Frac(2, 10), Inf)
    IN  Div(Mul(machine.speed, speed_multiplier), recipe.time)

\* lines 44-46
InputsBeforeNetting(recipe, rate) ==
    FromPairs([i \in 1..Len(recipe.inputs) |->
                  <<recipe.inputs[i][1], Mul(recipe.inputs[i][2], rate)>>])

\* line 48
ProductivityMultiplier(recipe, extra_effects) ==
    Clamp(Add(One, extra_effects.productivity), Zero, Add(One, recipe.max_productivity))

\* lines 52-53 : zero_quality_output_rate[item] += count * rate on a defaultdict(float)
RECURSIVE AddNoProductivity(_, _, _)
AddNoProductivity(zq, nop, rate) ==
    IF nop = <<>> THEN zq
    ELSE Eval1(LAMBDA d : Put(d, nop[Len(nop)][1],
                              Add(GetOr(d, nop[Len(nop)][1], Zero),
                                  Mul(nop[Len(nop)][2], rate))),
               AddNoProductivity(zq, SubSeq(nop, 1, Len(nop) - 1), rate))

\* lines 49-53
ZeroQualityOutputRate(recipe, rate, productivty_multiplier) ==
    AddNoProductivity(
        FromPairs([i \in 1..Len(recipe.outputs) |->
                      <<recipe.outputs[i][1],
                        Mul(Mul(recipe.outputs[i][2], rate), productivty_multiplier)>>]),
        recipe.outputs_no_productivity, rate)

\* line 56 : the catalysts, in the order of the inputs
Catalysts(inputs_per_sec, recipe) ==
    SelectSeq(Keys(inputs_per_sec), LAMBDA k : Has(recipe.outputs, k))

\* lines 58-66 for one catalyst c
NetCatalyst(c, ins, zq) ==
    IF Gt(Get(ins, c), Get(zq, c))
    THEN <<Put(ins, c, Sub(Get(ins, c), Get(zq, c))), Del(zq, c)>>
    ELSE IF Lt(Get(ins, c), Get(zq, c))
    THEN <<Del(ins, c), Put(zq, c, Sub(Get(zq, c), Get(ins, c)))>>
    ELSE <<Del(ins, c), Del(zq, c)>>

\* lines 57-66 : returns <<inputs_per_sec, zero_quality_output_rate>>
RECURSIVE NetTotals(_, _, _)
NetTotals(catalysts, ins, zq) ==
    IF catalysts = <<>> THEN <<ins, zq>>
    ELSE Eval1(LAMBDA st : NetCatalyst(catalysts[Len(catalysts)], st[1], st[2]),
               NetTotals(SubSeq(catalysts, 1, Len(catalysts) - 1), ins, zq))

NonFluids(zq) == SelectSeq(zq, LAMBDA p : ~p[1].is_fluid)

Fluids(zq) == SelectSeq(zq, LAMBDA p : p[1].is_fluid)

\* lines 69-76
BaseQualityOutputs(zq, recipe, quality) ==
    Update(FromPairs([i \in 1..Len(NonFluids(zq)) |->
                         <<Item(NonFluids(zq)[i][1].name, recipe.quality, FALSE),
                           Mul(NonFluids(zq)[i][2], Sub(One, quality))>>]),
           FromPairs([i \in 1..Len(Fluids(zq)) |->
                         <<Fluid(Fluids(zq)[i][1].name), Fluids(zq)[i][2]>>]))

\* lines 86-92 : the outputs at curr_quality
QualityOutputs(zq, curr_quality, curr_multi) ==
    FromPairs([i \in 1..Len(NonFluids(zq)) |->
                  <<Item(NonFluids(zq)[i][1].name, curr_quality, FALSE),
                    Mul(NonFluids(zq)[i][2], curr_multi)>>])

\* a variant that gives tier 5 its geometric share instead of what is left over
RECURSIVE HigherQualityOutputsGeometric(_, _, _, _, _)
HigherQualityOutputsGeometric(outs, zq, left_over, curr_multi, curr_quality) ==
    IF curr_quality <= MAX_QUALITY
    THEN Eval3(LAMBDA o, l, m :
                   HigherQualityOutputsGeometric(o, zq, l, m, curr_quality + 1),
               Update(outs, QualityOutputs(zq, curr_quality, curr_multi)),
               Sub(left_over, curr_multi),
               Mul(curr_multi, Frac(1, 10)))
    ELSE outs

\* lines 82-95 : the while loop
RECURSIVE HigherQualityOutputs(_, _, _, _, _)
HigherQualityOutputs(outs, zq, left_over, curr_multi, curr_quality) ==
    IF curr_quality <= MAX_QUALITY
    THEN LET multi == IF curr_quality = MAX_QUALITY THEN left_over ELSE curr_multi
         IN  Eval3(LAMBDA o, l, m : HigherQualityOutputs(o, zq, l, m, curr_quality + 1),
                   Update(outs, QualityOutputs(zq, curr_quality, multi)),
                   Sub(left_over, multi),
                   Mul(multi, Frac(1, 10)))
    ELSE outs

\* lines 68-95
OutputsPerSec(zq, recipe, extra_effects) ==
    LET quality == Clamp(extra_effects.quality, Zero, Inf)
        base    == BaseQualityOutputs(zq, recipe, quality)
    IN  IF Truthy(quality)
        THEN HigherQualityOutputs(base, zq, quality, Mul(quality, Frac(9, 10)),
                                  recipe.quality + 1)
        ELSE base

\* lines 37-66 : zero_quality_output_rate after the netting, the rates before quality
PreQualityOutputs(recipe, recipe_bonuses, machine, machine_settings, mining_bonus) ==
    LET extra_effects == ExtraEffects(recipe, recipe_bonuses, machine, machine_settings,
                                      mining_bonus)
        rate == Rate(recipe, machine, extra_effects)
        ins0 == InputsBeforeNetting(recipe, rate)
        zq0  == ZeroQualityOutputRate(recipe, rate,
                                      ProductivityMultiplier(recipe, extra_effects))
    IN  NetTotals(Catalysts(ins0, recipe), ins0, zq0)[2]

\* Transformation(name, recipe, recipe_bonuses, machine, machine_settings, mining_bonus)
Transformation(name, recipe, recipe_bonuses, machine, machine_settings, mining_bonus) ==
    LET extra_effects == ExtraEffects(recipe, recipe_bonuses, machine, machine_settings,
                                      mining_bonus)
        rate   == Rate(recipe, machine, extra_effects)
        ins0   == InputsBeforeNetting(recipe, rate)
        zq0    == ZeroQualityOutputRate(recipe, rate,
                                        ProductivityMultiplier(recipe, extra_effects))
        netted == NetTotals(Catalysts(ins0, recipe), ins0, zq0)
    IN  [name |-> name, recipe |-> recipe, machine |-> machine,
         machine_settings |-> machine_settings,
         inputs_per_sec |-> netted[1],
         outputs_per_sec |-> OutputsPerSec(netted[2], recipe, extra_effects)]

(***************************************************************************)
(* src/api/controller.py : generate_quality_recipes, Controller.__init__   *)
(***************************************************************************)
\* a variant that lets a recipe that consumes the base resource have quality copies
no_quality_recipe_but_resource(recipe) ==
    \/ \A i \in 1..Len(recipe.outputs) : recipe.outputs[i][1].is_fluid
    \/ \A i \in 1..Len(recipe.inputs) : recipe.inputs[i][1].is_fluid

\* lines 104-108
no_quality_recipe(recipe) ==
    \/ \A i \in 1..Len(recipe.outputs) : recipe.outputs[i][1].is_fluid
    \/ \A i \in 1..Len(recipe.inputs) : recipe.inputs[i][1].is_fluid
    \/ Has(recipe.inputs, BASE_RESOURCE)

\* lines 112-126 : recipe.model_copy(deep=True, update={...})
QualityCopy(recipe, quality) ==
    [recipe EXCEPT
        !.name = recipe.name \o <<"-", "q", QualityDigit(quality)>>,
        !.inputs = FromPairs([i \in 1..Len(recipe.inputs) |->
                       <<MakeItem(recipe.inputs[i][1].name, quality,
                                  recipe.inputs[i][1].is_fluid),
                         recipe.inputs[i][2]>>]),
        !.outputs = FromPairs([i \in 1..Len(recipe.outputs) |->
                       <<MakeItem(recipe.outputs[i][1].name, quality,
                                  recipe.outputs[i][1].is_fluid),
                         recipe.outputs[i][2]>>]),
        !.quality = quality]

\* generate_quality_recipes(recipes)
RECURSIVE generate_quality_recipes(_)
generate_quality_recipes(recipes) ==
    IF recipes = <<>> THEN <<>>
    ELSE (IF ~no_quality_recipe(recipes[1])
          THEN [q \in MIN_QUALITY..MAX_QUALITY |-> QualityCopy(recipes[1], q)]
          ELSE <<recipes[1]>>)
         \o generate_quality_recipes(Tail(recipes))

RecyclingSuffix == <<"-", "r", "e", "c", "y", "c", "l", "i", "n", "g">>

Scrap == <<"s", "c", "r", "a", "p">>

\* lines 138-147 : the recipes the two comprehensions run over
KeptRecipes(cfg) ==
    LET recipes == IF cfg.enable_quality THEN generate_quality_recipes(cfg.recipes)
                   ELSE cfg.recipes
    IN  IF cfg.enable_recycling THEN recipes
        ELSE SelectSeq(recipes,
                 LAMBDA r : ~Contains(r.name, RecyclingSuffix)
                            \/ Contains(r.name, Scrap))

\* lines 138-147 : the recipe map, a dict from recipe name to recipe
RecipeMap(cfg) ==
    LET kept == KeptRecipes(cfg)
    IN  FromPairs([i \in 1..Len(kept) |-> <<kept[i].name, kept[i]>>])

\* a reading of lines 152-154 that looks at the module only
uses_prod_modules_of_module(machine_settings) ==
    Gt(machine_settings.module.productivity, Zero)

\* lines 152-154
uses_prod_modules(machine_settings) ==
    \/ Gt(machine_settings.module.productivity, Zero)
    \/ (~machine_settings.beacon.none
        /\ Gt(machine_settings.beacon.effect.productivity, Zero))

\* lines 158-160
uses_quality_modules(machine_settings) ==
    \/ Gt(machine_settings.module.quality, Zero)
    \/ (~machine_settings.beacon.none
        /\ Gt(machine_settings.beacon.effect.quality, Zero))

\* lines 155-165 : the pair (recipe, machine_settings) gets a transformation
Buildable(cfg, recipe, machine_settings) ==
    /\ ~(uses_prod_modules(machine_settings) /\ ~recipe.allow_productivity)
    /\ ~(uses_quality_modules(machine_settings)
         /\ (~cfg.enable_quality \/ ~recipe.allow_quality))
    /\ Has(cfg.machines, recipe.category)

\* lines 151-176 : the transformations of one recipe, in settings order
RECURSIVE TransformationsOf(_, _, _)
TransformationsOf(cfg, recipe, settings) ==
    IF settings = <<>> THEN <<>>
    ELSE (IF Buildable(cfg, recipe, settings[1])
          THEN <<Transformation(recipe.name \o <<" ", "[">> \o settings[1].name \o <<"]">>,
                                recipe, cfg.recipe_bonuses,
                                Get(cfg.machines, recipe.category), settings[1],
                                cfg.mining_productivity)>>
          ELSE <<>>)
         \o TransformationsOf(cfg, recipe, Tail(settings))

\* lines 149-176 : recipe-major, then settings order
RECURSIVE BuildTransformations(_, _)
BuildTransformations(cfg, recipe_map) ==
    IF recipe_map = <<>> THEN <<>>
    ELSE TransformationsOf(cfg, recipe_map[1][2], cfg.machine_settings_available)
         \o BuildTransformations(cfg, Tail(recipe_map))

(***************************************************************************)
(* src/api/controller.py : Controller.compute_all_costs                    *)
(***************************************************************************)
\* lines 182-185 : item_costs[item] = cost for the keys from position k on
RECURSIVE SetAll(_, _, _, _)
SetAll(item_costs, keys, k, cost) ==
    IF k > Len(keys) THEN item_costs
    ELSE Eval1(LAMBDA d : SetAll(d, keys, k + 1, cost), Put(item_costs, keys[k], cost))

\* a variant that gives a cost to the inputs only
RECURSIVE InitialCostsFromInputs(_, _, _, _)
InitialCostsFromInputs(item_costs, transformations, k, resource_base_cost) ==
    IF k > Len(transformations) THEN item_costs
    ELSE Eval1(LAMBDA d : InitialCostsFromInputs(d, transformations, k + 1,
                                                 resource_base_cost),
               SetAll(item_costs, Keys(transformations[k].inputs_per_sec), 1,
                      resource_base_cost))

\* lines 181-185 : the transformations from position k on
RECURSIVE InitialCostsFrom(_, _, _, _)
InitialCostsFrom(item_costs, transformations, k, resource_base_cost) ==
    IF k > Len(transformations) THEN item_costs
    ELSE Eval1(LAMBDA d : InitialCostsFrom(d, transformations, k + 1, resource_base_cost),
               Eval1(LAMBDA d : SetAll(d, Keys(transformations[k].outputs_per_sec), 1,
                                       resource_base_cost),
                     SetAll(item_costs, Keys(transformations[k].inputs_per_sec), 1,
                            resource_base_cost)))

\* a variant that starts every cost at zero
InitialCostsZero(transformations, resource_base_cost) ==
    InitialCostsFrom(EmptyDict, transformations, 1, Zero)

\* lines 179-185
InitialCosts(transformations, resource_base_cost) ==
    InitialCostsFrom(EmptyDict, transformations, 1, resource_base_cost)

\* sum(item_costs[item] * count for (item, count) in counts.items())
RECURSIVE TotalCost(_, _)
TotalCost(item_costs, counts) ==
    IF counts = <<>> THEN Zero
    ELSE Add(TotalCost(item_costs, SubSeq(counts, 1, Len(counts) - 1)),
             Mul(Get(item_costs, counts[Len(counts)][1]), counts[Len(counts)][2]))

\* a variant that discounts the outputs of higher quality
DiscountedOutputsHigher(transformation, item) ==
    SelectSeq(transformation.outputs_per_sec,
              LAMBDA p : item.name = p[1].name /\ item.quality < p[1].quality)

\* lines 201-203 : the outputs whose value is discounted for `item`
DiscountedOutputs(transformation, item) ==
    SelectSeq(transformation.outputs_per_sec,
              LAMBDA p : item.name = p[1].name /\ item.quality > p[1].quality)

\* a variant that discounts a quarter of the lower tiers whether or not recycling
\* is enabled
DiscountAlways(cfg, item_costs, transformation, item) ==
    Mul(TotalCost(item_costs, DiscountedOutputs(transformation, item)), Frac(1, 4))

\* lines 199-207
Discount(cfg, item_costs, transformation, item) ==
    LET total_input_cost  == TotalCost(item_costs, transformation.inputs_per_sec)
        total_output_cost == TotalCost(item_costs, transformation.outputs_per_sec)
    IN  IF cfg.enable_recycling
        THEN Mul(Mul(TotalCost(item_costs, DiscountedOutputs(transformation, item)),
                     Frac(1, 4)),
                 IF Truthy(total_output_cost)
                 THEN Div(total_input_cost, total_output_cost)
                 ELSE Zero)
        ELSE Zero

\* sum(c for (i, c) in counts)
RECURSIVE SumCounts(_)
SumCounts(counts) ==
    IF counts = <<>> THEN Zero
    ELSE Add(SumCounts(SubSeq(counts, 1, Len(counts) - 1)), counts[Len(counts)][2])

\* a variant that counts the item's own rate only
CountSameQuality(transformation, item) ==
    SumCounts(SelectSeq(transformation.outputs_per_sec,
                        LAMBDA p : p[1].name = item.name /\ p[1].quality = item.quality))

\* lines 211-215
Count(transformation, item) ==
    SumCounts(SelectSeq(transformation.outputs_per_sec,
                        LAMBDA p : p[1].name = item.name /\ p[1].quality >= item.quality))

\* a variant that charges mining like any other recipe
TimeCostFlat(cfg, transformation) == cfg.machine_time_cost

\* lines 216-218
TimeCost(cfg, transformation) ==
    IF transformation.recipe.is_mining
    THEN Mul(cfg.machine_time_cost, Num(10))
    ELSE cfg.machine_time_cost

\* line 219 : the dividend
Dividend(cfg, item_costs, transformation, item) ==
    Sub(Add(TimeCost(cfg, transformation),
            TotalCost(item_costs, transformation.inputs_per_sec)),
        Discount(cfg, item_costs, transformation, item))

\* line 219 raises ZeroDivisionError
NewItemValueRaises(cfg, item_costs, transformation, item) ==
    DivRaises(Dividend(cfg, item_costs, transformation, item), Count(transformation, item))

\* line 219
NewItemValue(cfg, item_costs, transformation, item) ==
    Div(Dividend(cfg, item_costs, transformation, item), Count(transformation, item))

\* a variant that records a candidate only when it lowers the cost of the item
VisitOutputImproving(cfg, item_costs, transformation, item, return_transforms, acc) ==
    IF NewItemValueRaises(cfg, item_costs, transformation, item)
    THEN [acc EXCEPT !.raised = TRUE]
    ELSE Eval1(LAMBDA new_item_value :
                 IF Lt(new_item_value, GetOr(acc.new_costs, item, Inf))
                 THEN [new_costs |-> Put(acc.new_costs, item, new_item_value),
                       transforms |->
                           IF return_transforms
                           THEN Put(acc.transforms, item,
                                    Append(GetOr(acc.transforms, item, <<>>),
                                           <<transformation.name, new_item_value>>))
                           ELSE acc.transforms,
                       raised |-> FALSE]
                 ELSE acc,
               NewItemValue(cfg, item_costs, transformation, item))

\* lines 221-227 for one output item; acc = [new_costs, transforms, raised]
VisitOutput(cfg, item_costs, transformation, item, return_transforms, acc) ==
    IF NewItemValueRaises(cfg, item_costs, transformation, item)
    THEN [acc EXCEPT !.raised = TRUE]
    ELSE Eval1(LAMBDA new_item_value :
                 [new_costs |->
                     IF Lt(new_item_value, GetOr(acc.new_costs, item, Inf))
                     THEN Put(acc.new_costs, item, new_item_value)
                     ELSE acc.new_costs,
                  transforms |->
                     IF return_transforms
                     THEN Put(acc.transforms, item,
                              Append(GetOr(acc.transforms, item, <<>>),
                                     <<transformation.name, new_item_value>>))
                     ELSE acc.transforms,
                  raised |-> FALSE],
               NewItemValue(cfg, item_costs, transformation, item))

\* lines 198-227 : the outputs of one transformation from position k on
RECURSIVE VisitOutputs(_, _, _, _, _, _)
VisitOutputs(cfg, item_costs, transformation, k, return_transforms, acc) ==
    IF acc.raised \/ k > Len(transformation.outputs_per_sec) THEN acc
    ELSE Eval1(LAMBDA next : VisitOutputs(cfg, item_costs, transformation, k + 1,
                                          return_transforms, next),
               VisitOutput(cfg, item_costs, transformation,
                           transformation.outputs_per_sec[k][1], return_transforms, acc))

\* lines 191-227 : the transformations from position k on, in construction order
RECURSIVE VisitTransformations(_, _, _, _, _, _)
VisitTransformations(cfg, item_costs, transformations, k, return_transforms, acc) ==
    IF acc.raised \/ k > Len(transformations) THEN acc
    ELSE Eval1(LAMBDA next : VisitTransformations(cfg, item_costs, transformations, k + 1,
                                                  return_transforms, next),
               VisitOutputs(cfg, item_costs, transformations[k], 1, return_transforms,
                            acc))

\* a variant that gives a cost of zero to an item no transformation reached
RECURSIVE FillUnreachedZero(_, _)
FillUnreachedZero(new_costs, keys) ==
    IF keys = <<>> THEN new_costs
    ELSE Eval1(LAMBDA d : IF Has(d, keys[Len(keys)]) THEN d
                          ELSE Put(d, keys[Len(keys)], Zero),
               FillUnreachedZero(new_costs, SubSeq(keys, 1, Len(keys) - 1)))

\* lines 229-231
RECURSIVE FillUnreached(_, _)
FillUnreached(new_costs, keys) ==
    IF keys = <<>> THEN new_costs
    ELSE Eval1(LAMBDA d : IF Has(d, keys[Len(keys)]) THEN d
                          ELSE Put(d, keys[Len(keys)], Inf),
               FillUnreached(new_costs, SubSeq(keys, 1, Len(keys) - 1)))

\* a variant that leaves the base resource to the transformations that output it
CommitWithoutBase(cfg, item_costs, new_costs) ==
    FillUnreached(new_costs, Keys(item_costs))

\* lines 229-232
Commit(cfg, item_costs, new_costs) ==
    Put(FillUnreached(new_costs, Keys(item_costs)), BASE_RESOURCE, cfg.resource_base_cost)

(***************************************************************************)
(* list.sort(key=lambda t: t[1]) : CPython's sort of a list shorter than   *)
(* 64 elements (an initial run, then binary insertion), comparing the      *)
(* float keys with <                                                       *)
(***************************************************************************)
Reverse(s) == [i \in 1..Len(s) |-> s[Len(s) + 1 - i]]

\* count_run : the length of the initial run and whether it is strictly descending
InitialRun(s) ==
    IF Len(s) <= 1 THEN [n |-> Len(s), descending |-> FALSE]
    ELSE LET descending == Lt(s[2][2], s[1][2])
             Continues(j) == Lt(s[j][2], s[j - 1][2]) = descending
         IN  [n |-> CHOOSE k \in 2..Len(s) :
                        /\ \A j \in 3..k : Continues(j)
                        /\ (k < Len(s) => ~Continues(k + 1)),
              descending |-> descending]

\* binarysort : the position at which pivot goes into the sorted prefix, within l..r
RECURSIVE InsertionPoint(_, _, _, _)
InsertionPoint(prefix, pivot, l, r) ==
    IF l < r
    THEN LET p == l + ((r - l) \div 2)
         IN  IF Lt(pivot[2], prefix[p + 1][2])
             THEN InsertionPoint(prefix, pivot, l, p)
             ELSE InsertionPoint(prefix, pivot, p + 1, r)
    ELSE l

\* binarysort : insert rest[1], rest[2], ... into the sorted prefix
RECURSIVE BinarySort(_, _)
BinarySort(prefix, rest) ==
    IF rest = <<>> THEN prefix
    ELSE Eval1(LAMBDA l : Eval1(LAMBDA next : BinarySort(next, Tail(rest)),
                                SubSeq(prefix, 1, l) \o <<rest[1]>>
                                    \o SubSeq(prefix, l + 1, Len(prefix))),
               InsertionPoint(prefix, rest[1], 0, Len(prefix)))

SortValues(s) ==
    LET run   == InitialRun(s)
        first == SubSeq(s, 1, run.n)
    IN  BinarySort(IF run.descending THEN Reverse(first) ELSE first,
                   SubSeq(s, run.n + 1, Len(s)))

\* transformation_list.sort(key=lambda t: t[1])
SortByValue(s) == Eval1(SortValues, s)

SortAllValues(transforms) ==
    [i \in 1..Len(transforms) |-> <<transforms[i][1], SortByValue(transforms[i][2])>>]

\* lines 238-239
SortAll(transforms) == Eval1(SortAllValues, transforms)

\* lines 187-240 : iterate(return_transforms); raised means line 219 raised
\* ZeroDivisionError, and then nothing was committed
Iterate(cfg, transformations, item_costs, return_transforms) ==
    Eval1(LAMBDA acc :
            IF acc.raised
            THEN [raised |-> TRUE, item_costs |-> item_costs, transforms |-> EmptyDict]
            ELSE [raised |-> FALSE,
                  item_costs |-> Commit(cfg, item_costs, acc.new_costs),
                  transforms |-> SortAll(acc.transforms)],
          VisitTransformations(cfg, item_costs, transformations, 1, return_transforms,
              [new_costs |-> EmptyDict, transforms |-> EmptyDict, raised |-> FALSE]))

\* ItemCost(item=..., cost=..., transformation_costs=...)
ItemCost(item, cost, transformation_costs) ==
    [item |-> item, cost |-> cost, transformation_costs |-> transformation_costs]

\* a variant that lists the items of the transformation lists only
ItemCostsListOfProduced(item_costs, transforms) ==
    [i \in 1..Len(transforms) |->
        ItemCost(transforms[i][1], Get(item_costs, transforms[i][1]), transforms[i][2])]

\* lines 247-255
ItemCostsList(item_costs, transforms) ==
    [i \in 1..Len(item_costs) |->
        ItemCost(item_costs[i][1], item_costs[i][2],
                 GetOr(transforms, item_costs[i][1], <<>>))]

(***************************************************************************)
(* The configurations the controller is constructed from                   *)
(***************************************************************************)
\* the caller passes the iteration counts 1..MaxIterations to compute_all_costs
MaxIterations == 3

\* and, for a configuration without modules, quality and recycling, one long run
LongIterations == 10

Solid(n) == Item(<<n>>, 1, FALSE)

Category == <<"c">>

\* a recipe with time 1 and the defaults of model.Recipe
SimpleRecipe(name, inputs, outputs) ==
    Recipe(name, Category, One, inputs, outputs, EmptyDict, MIN_QUALITY, TRUE, TRUE,
           Num(3), FALSE)

MineOre ==
    [SimpleRecipe(<<"o", "r", "e">>, <<<<BASE_RESOURCE, One>>>>, <<<<Solid("o"), One>>>>)
        EXCEPT !.is_mining = TRUE]

MakeA == SimpleRecipe(<<"m", "k">>, <<<<BASE_RESOURCE, One>>>>, <<<<Solid("a"), One>>>>)

AToB == SimpleRecipe(<<"a", "b">>, <<<<Solid("a"), One>>>>, <<<<Solid("b"), One>>>>)

BToC == SimpleRecipe(<<"b", "c">>, <<<<Solid("b"), One>>>>, <<<<Solid("c"), One>>>>)

YToX == SimpleRecipe(<<"y", "x">>, <<<<Solid("y"), One>>>>, <<<<Solid("x"), One>>>>)

\* two a for every resource
CheapA == SimpleRecipe(<<"c", "h">>, <<<<BASE_RESOURCE, One>>>>, <<<<Solid("a"), Num(2)>>>>)

\* a recipe that outputs the base resource
Refund == SimpleRecipe(<<"r", "f">>, <<<<Solid("a"), One>>>>, <<<<BASE_RESOURCE, Num(4)>>>>)

\* a recipe that outputs the base resource at a loss
Burn == SimpleRecipe(<<"b", "u">>, <<<<Solid("a"), Num(4)>>>>, <<<<BASE_RESOURCE, One>>>>)

\* b and a fluid by-product, the fluid bypassing productivity
Crack ==
    [SimpleRecipe(<<"c", "r">>, <<<<Solid("a"), One>>>>, <<<<Solid("b"), One>>>>)
        EXCEPT !.outputs_no_productivity = <<<<Fluid(<<"w">>), Frac(1, 2)>>>>]

\* recycling of b into a quarter of its ingredient
RecycleB ==
    SimpleRecipe(<<"b">> \o RecyclingSuffix, <<<<Solid("b"), One>>>>,
                 <<<<Solid("a"), Frac(1, 4)>>>>)

\* resource -> a, listed at quality tier 4
MakeA4 == [MakeA EXCEPT !.quality = 4]

\* a -> b at quality tier 4
AToB4 ==
    [SimpleRecipe(<<"a", "b">>, <<<<Item(<<"a">>, 4, FALSE), One>>>>,
                  <<<<Item(<<"b">>, 4, FALSE), One>>>>)
        EXCEPT !.quality = 4]

\* a fluid y -> x, listed at quality tier 5
YToX5 ==
    [SimpleRecipe(<<"y", "x">>, <<<<Fluid(<<"y">>), One>>>>,
                  <<<<Item(<<"x">>, 5, FALSE), One>>>>)
        EXCEPT !.quality = 5]

\* a -> b with a catalyst k that the recipe lists among its outputs
Catalyse ==
    SimpleRecipe(<<"c", "a">>, <<<<Solid("a"), One>>, <<Solid("k"), One>>>>,
                 <<<<Solid("b"), One>>, <<Solid("k"), One>>>>)

\* a -> b with a fluid w that comes back only among outputs_no_productivity
Wash ==
    [SimpleRecipe(<<"w", "a">>, <<<<Solid("a"), One>>, <<Fluid(<<"w">>), One>>>>,
                  <<<<Solid("b"), One>>>>)
        EXCEPT !.outputs_no_productivity = <<<<Fluid(<<"w">>), Frac(1, 2)>>>>]

\* a second recipe of the name of MakeA : two resource -> a
DearA == SimpleRecipe(MakeA.name, <<<<BASE_RESOURCE, Num(2)>>>>, <<<<Solid("a"), One>>>>)

\* a from an item y that nothing produces
YToA == SimpleRecipe(<<"y", "a">>, <<<<Solid("y"), One>>>>, <<<<Solid("a"), One>>>>)

\* two a in, three a out
Breed == SimpleRecipe(<<"b", "r">>, <<<<Solid("a"), Num(2)>>>>, <<<<Solid("a"), Num(3)>>>>)

\* a -> b with a catalyst k of which half is used up
Wear ==
    SimpleRecipe(<<"w", "e">>, <<<<Solid("a"), One>>, <<Solid("k"), Num(2)>>>>,
                 <<<<Solid("b"), One>>, <<Solid("k"), One>>>>)

\* recycling of scrap s into a
RecycleScrap ==
    SimpleRecipe(Scrap \o RecyclingSuffix, <<<<Solid("s"), One>>>>,
                 <<<<Solid("a"), Frac(1, 4)>>>>)

\* a -> b, productivity modules not allowed
NoProdAToB == [AToB EXCEPT !.name = <<"n", "p">>, !.allow_productivity = FALSE]

\* b -> c, quality modules not allowed
NoQualityBToC == [BToC EXCEPT !.name = <<"n", "q">>, !.allow_quality = FALSE]

\* a -> c in a category that no machine of the configuration has
HandAToC ==
    [SimpleRecipe(<<"h", "c">>, <<<<Solid("a"), One>>>>, <<<<Solid("c"), One>>>>)
        EXCEPT !.category = <<"h">>]

\* a -> b ; b and c are also produced outside the reach of productivity
Sift ==
    [SimpleRecipe(<<"s", "i">>, <<<<Solid("a"), One>>>>, <<<<Solid("b"), One>>>>)
        EXCEPT !.outputs_no_productivity =
                   <<<<Solid("b"), Frac(1, 2)>>, <<Solid("c"), Frac(1, 4)>>>>]

\* the recipes that some machine settings skip
PickyRecipes == <<MakeA, NoProdAToB, NoQualityBToC, HandAToC>>

\* the recipe lists of the configurations
RecipeLists ==
    { <<MakeA4>>,
      PickyRecipes,
      <<MakeA, Sift>>,
      <<AToB, RecycleB, RecycleScrap>>,
      <<MakeA, Breed, Wear>>,
      <<YToA, MakeA>>,
      <<MakeA, DearA>>,
      <<MakeA, Catalyse, Wash>>,
      <<YToX5>>,
      <<MakeA4, AToB4>>,
      <<AToB>>,
      <<MineOre>>,
      <<MakeA, AToB>>,
      <<MakeA, AToB, BToC>>,
      <<YToX>>,
      <<MakeA, AToB, YToX>>,
      <<CheapA, AToB, BToC>>,
      <<MakeA, Refund, Burn>>,
      <<MakeA, Crack>>,
      <<MakeA, AToB, RecycleB>> }

NoModule == MachineSettings(<<"n">>, ZERO_BONUS, 0, NoBeacon)

\* two productivity modules double the output and slow the machine to the speed floor
ProdModule ==
    MachineSettings(<<"p">>, Bonus(<<"p">>, Neg(One), Frac(1, 2), Zero), 0, NoBeacon)

\* two quality modules give a total quality effect of 1/10
QualityModule ==
    MachineSettings(<<"q">>, Bonus(<<"q">>, Zero, Zero, Frac(1, 20)), 0, NoBeacon)

\* two quality modules give a total quality effect of 3/2
StrongQualityModule ==
    MachineSettings(<<"s">>, Bonus(<<"s">>, Zero, Zero, Frac(3, 4)), 0, NoBeacon)

\* four speed beacons
SpeedBeacons ==
    MachineSettings(<<"f">>, ZERO_BONUS, 4,
                    Beacon(<<"f">>, Frac(3, 2), Bonus(<<"f">>, Frac(1, 2), Zero, Zero)))

\* two quality modules give a total quality effect of 1
UnitQualityModule ==
    MachineSettings(<<"u">>, Bonus(<<"u">>, Zero, Zero, Frac(1, 2)), 0, NoBeacon)

\* no modules, one beacon with a productivity effect
ProdBeacon ==
    MachineSettings(<<"p", "b">>, ZERO_BONUS, 1,
                    Beacon(<<"p", "b">>, One, Bonus(<<"p", "b">>, Zero, Frac(1, 2), Zero)))

\* no modules, one beacon with a quality effect
QualityBeacon ==
    MachineSettings(<<"q", "b">>, ZERO_BONUS, 1,
                    Beacon(<<"q", "b">>, One, Bonus(<<"q", "b">>, Zero, Zero, Frac(1, 10))))

\* modules and beacons of every kind
PickySettings == <<NoModule, ProdModule, QualityBeacon, ProdBeacon, QualityModule>>

SettingsLists ==
    { PickySettings,
      <<NoModule>>, <<ProdModule>>, <<QualityModule>>, <<StrongQualityModule>>,
      <<UnitQualityModule>>, <<NoModule, SpeedBeacons>>, <<QualityModule, ProdModule>> }

Machines == <<<<Category, Machine(<<"m">>, One, 2, ZERO_BONUS)>>>>

MiningProductivity == Bonus(<<"m", "p">>, Zero, Frac(1, 2), Zero)

\* Exact rationals stay within TLC's 32-bit integers when a configuration that
\* combines the recycling discount with quality modules lists its recipes at
\* tier 4 or above, where the quality tail has at most two terms, and has one
\* recipe or the strong quality module.
Tractable(cfg) ==
    \/ ~cfg.enable_recycling
    \/ ~cfg.enable_quality
    \/ \A i \in 1..Len(cfg.machine_settings_available) :
           ~uses_quality_modules(cfg.machine_settings_available[i])
    \/ /\ \A i \in 1..Len(cfg.recipes) : cfg.recipes[i].quality >= 4
       /\ \/ Len(cfg.recipes) = 1
          \/ cfg.machine_settings_available = <<StrongQualityModule>>

\* the mining productivity bonus is drawn only where a recipe is mined
HasMining(cfg) == \E i \in 1..Len(cfg.recipes) : cfg.recipes[i].is_mining

\* a machine whose base effect carries a quality effect of 1/10
QualityMachines ==
    <<<<Category, Machine(<<"m">>, One, 2, Bonus(<<"b">>, Zero, Zero, Frac(1, 10)))>>>>

\* a mining bonus that carries a quality effect of 1/10
MiningQuality == Bonus(<<"m", "q">>, Zero, Zero, Frac(1, 10))

\* a bonus for the recipe mk : productivity 1/2 and a quality effect of 1/10
MakeABonuses == <<<<MakeA.name, Bonus(<<"r">>, Zero, Frac(1, 2), Frac(1, 10))>>>>

\* the base effect of the machine, the recipe bonuses and a mining bonus with a
\* quality effect are each drawn for one recipe list, with recycling disabled
PlainExtras(cfg) ==
    /\ cfg.machines = Machines \/ (cfg.recipes = <<AToB>> /\ ~cfg.enable_recycling)
    /\ cfg.recipe_bonuses = EmptyDict
           \/ (cfg.recipes = <<MakeA, AToB>> /\ ~cfg.enable_recycling)
    /\ cfg.mining_productivity # MiningQuality \/ ~cfg.enable_recycling
    /\ cfg.recipes = PickyRecipes <=> cfg.machine_settings_available = PickySettings

Configurations ==
    { cfg \in
        { Configuration(eq, er, mtc, rbc, ma, sl, mp, rb, rl) :
            eq \in BOOLEAN, er \in BOOLEAN, mtc \in {Zero, One}, rbc \in {One, Num(2)},
            ma \in {Machines, QualityMachines}, sl \in SettingsLists,
            mp \in {ZERO_BONUS, MiningProductivity, MiningQuality},
            rb \in {EmptyDict, MakeABonuses}, rl \in RecipeLists } :
        /\ cfg.mining_productivity = ZERO_BONUS \/ HasMining(cfg)
        /\ PlainExtras(cfg)
        /\ Tractable(cfg) }

\* the configurations that get the long run
LongRun(cfg) ==
    /\ ~cfg.enable_quality
    /\ ~cfg.enable_recycling
    /\ cfg.machine_settings_available = <<NoModule>>

(***************************************************************************)
(* The controller as a state machine                                       *)
(***************************************************************************)
VARIABLES
    pc,                          \* "new", "ready", "iterating" or "reported"
    config,                      \* Controller.config
    recipe_map,                  \* Controller.recipe_map
    transformations,             \* Controller.transformations
    iterations,                  \* the argument of the running compute_all_costs
    round,                       \* the calls of iterate() made by the running call
    item_costs,                  \* item_costs of the running call
    item_to_weighted_transforms, \* the value of iterate(return_transforms=True)
    returned,                    \* iterations -> what compute_all_costs(iterations) gave
    it,                          \* an Item
    data,                        \* it.serialize()
    parsed,                      \* Item.deserialize(data)
    mutated,                     \* the caller assigned a field of config after Controller(config)
    rebuilt                      \* the caller constructed a second Controller

vars == <<pc, config, recipe_map, transformations, iterations, round, item_costs,
          item_to_weighted_transforms, returned, it, data, parsed, mutated, rebuilt>>

\* the variables of the caller of the controller
caller_vars == <<mutated, rebuilt>>

\* the variables of the Item round trip
item_vars == <<it, data, parsed>>

\* the variables of the controller
controller_vars == <<config, recipe_map, transformations, iterations, round, item_costs,
                     item_to_weighted_transforms, returned>>

None == [none |-> TRUE]

ZeroDivisionError == [raised |-> TRUE]

Returned(costs) == [raised |-> FALSE, costs |-> costs]

Init ==
    /\ pc = "new"
    /\ config \in Configurations
    /\ recipe_map = EmptyDict
    /\ transformations = <<>>
    /\ iterations = 0
    /\ round = 0
    /\ item_costs = EmptyDict
    /\ item_to_weighted_transforms = EmptyDict
    /\ returned = EmptyDict
    /\ it = None
    /\ data = None
    /\ parsed = None
    /\ mutated = FALSE
    /\ rebuilt = FALSE

\* Controller.__init__(config)
Construct ==
    /\ pc = "new"
    /\ pc' = "ready"
    /\ recipe_map' = RecipeMap(config)
    /\ transformations' = BuildTransformations(config, RecipeMap(config))
    /\ UNCHANGED <<config, iterations, round, item_costs, item_to_weighted_transforms,
                   returned>>
    /\ UNCHANGED <<item_vars, caller_vars>>

\* the iteration counts the caller asks for, in turn
NextIterations ==
    IF Len(returned) < MaxIterations THEN {Len(returned) + 1}
    ELSE IF Len(returned) = MaxIterations /\ LongRun(config) THEN {LongIterations}
    ELSE {}

\* compute_all_costs(n) is entered: lines 179-185
Call(n) ==
    /\ pc = "ready"
    /\ pc' = "iterating"
    /\ iterations' = n
    /\ round' = 0
    /\ item_costs' = InitialCosts(transformations, config.resource_base_cost)
    /\ item_to_weighted_transforms' = EmptyDict
    /\ UNCHANGED <<config, recipe_map, transformations, returned>>
    /\ UNCHANGED <<item_vars, caller_vars>>

\* the exception of line 219 leaves compute_all_costs; nothing was committed
Raise ==
    /\ pc' = "ready"
    /\ returned' = Put(returned, iterations, ZeroDivisionError)
    /\ UNCHANGED <<iterations, round, item_costs, item_to_weighted_transforms>>

\* lines 242-243 : one iterate()
IterateStep ==
    /\ pc = "iterating"
    /\ round < iterations
    /\ LET r == Iterate(config, transformations, item_costs, FALSE)
       IN  IF r.raised THEN Raise
           ELSE /\ item_costs' = r.item_costs
                /\ round' = round + 1
                /\ UNCHANGED <<pc, iterations, item_to_weighted_transforms, returned>>
    /\ UNCHANGED <<config, recipe_map, transformations>>
    /\ UNCHANGED <<item_vars, caller_vars>>

\* line 245 : iterate(return_transforms=True)
Report ==
    /\ pc = "iterating"
    /\ round = iterations
    /\ LET r == Iterate(config, transformations, item_costs, TRUE)
       IN  IF r.raised THEN Raise
           ELSE /\ item_costs' = r.item_costs
                /\ item_to_weighted_transforms' = r.transforms
                /\ round' = round + 1
                /\ pc' = "reported"
                /\ UNCHANGED <<iterations, returned>>
    /\ UNCHANGED <<config, recipe_map, transformations>>
    /\ UNCHANGED <<item_vars, caller_vars>>

\* lines 247-255 : the list is built and returned
Return ==
    /\ pc = "reported"
    /\ pc' = "ready"
    /\ returned' = Put(returned, iterations,
                       Returned(ItemCostsList(item_costs, item_to_weighted_transforms)))
    /\ UNCHANGED <<config, recipe_map, transformations, iterations, round, item_costs,
                   item_to_weighted_transforms>>
    /\ UNCHANGED <<item_vars, caller_vars>>

Next ==
    \/ Construct
    \/ \E n \in NextIterations : Call(n)
    \/ IterateStep
    \/ Report
    \/ Return

Spec == Init /\ [][Next]_vars

(***************************************************************************)
(* A caller that assigns a field of the Configuration after Controller()   *)
(***************************************************************************)
\* the configurations whose fields the caller assigns
Mutable(cfg) ==
    /\ cfg.machines = Machines
    /\ cfg.recipe_bonuses = EmptyDict
    /\ cfg.mining_productivity = ZERO_BONUS
    /\ cfg.machine_settings_available = <<NoModule>>
    /\ cfg.recipes \in {<<MakeA, AToB>>, <<MakeA, AToB, RecycleB>>}

InitMutation == Init /\ Mutable(config)

\* the fields of model.Configuration
ConfigurationFields == DOMAIN Configuration(FALSE, FALSE, One, One, Machines, <<NoModule>>, ZERO_BONUS, EmptyDict, <<MakeA>>)

\* config.<field> = <value> on the object the Controller was constructed from:
\* self.config of line 136 is that same object
Mutate ==
    /\ pc = "ready"
    /\ ~mutated
    /\ NextIterations = {}
    /\ \E cfg \in Configurations :
           /\ \E f \in ConfigurationFields :
                  /\ cfg[f] # config[f]
                  /\ \A g \in ConfigurationFields \ {f} : cfg[g] = config[g]
           /\ config' = cfg
    /\ mutated' = TRUE
    /\ UNCHANGED <<pc, recipe_map, transformations, iterations, round, item_costs,
                   item_to_weighted_transforms, returned, rebuilt>>
    /\ UNCHANGED item_vars

\* the iteration count of the last call that completed
LastCall == {returned[k][1] : k \in {Len(returned)} \cap DOMAIN returned}

\* the caller repeats a call it has made before
CallAgain(n) == (mutated \/ rebuilt) /\ Call(n)

NextMutation ==
    \/ Construct
    \/ \E n \in NextIterations : Call(n)
    \/ IterateStep
    \/ Report
    \/ Return
    \/ Mutate
    \/ \E n \in LastCall : CallAgain(n)

SpecMutation == InitMutation /\ [][NextMutation]_vars

(***************************************************************************)
(* A caller that constructs a second Controller from the same recipes and  *)
(* machine settings in another order                                       *)
(***************************************************************************)
\* the configurations whose lists the caller reorders
Permutable(cfg) ==
    /\ cfg.machines = Machines
    /\ cfg.recipe_bonuses = EmptyDict
    /\ cfg.mining_productivity = ZERO_BONUS
    /\ cfg.machine_time_cost = One
    /\ cfg.resource_base_cost = One
    /\ Len(cfg.recipes) >= 2 \/ Len(cfg.machine_settings_available) >= 2
    /\ cfg.recipes \notin {PickyRecipes, <<MakeA, Sift>>, <<MakeA, Breed, Wear>>,
                           <<AToB, RecycleB, RecycleScrap>>}

InitPermutation == Init /\ Permutable(config)

\* the lists with the elements of s in every order
Reorderings(s) ==
    { [i \in 1..Len(s) |-> s[p[i]]] :
        p \in { f \in [1..Len(s) -> 1..Len(s)] :
                    \A i, j \in 1..Len(s) : f[i] = f[j] => i = j } }

\* Controller(config') for a config' with the recipes and the machine settings
\* of config in another order; the results of the first controller are kept
Rebuild ==
    /\ pc = "ready"
    /\ ~rebuilt
    /\ NextIterations = {}
    /\ \E rl \in Reorderings(config.recipes) :
           \E sl \in Reorderings(config.machine_settings_available) :
               /\ <<rl, sl>> # <<config.recipes, config.machine_settings_available>>
               /\ config' = [config EXCEPT !.recipes = rl,
                                           !.machine_settings_available = sl]
    /\ pc' = "new"
    /\ recipe_map' = EmptyDict
    /\ transformations' = <<>>
    /\ rebuilt' = TRUE
    /\ UNCHANGED <<iterations, round, item_costs, item_to_weighted_transforms, returned,
                   mutated>>
    /\ UNCHANGED item_vars

NextPermutation ==
    \/ Construct
    \/ \E n \in NextIterations : Call(n)
    \/ IterateStep
    \/ Report
    \/ Return
    \/ Rebuild
    \/ \E n \in LastCall : CallAgain(n)

SpecPermutation == InitPermutation /\ [][NextPermutation]_vars

(***************************************************************************)
(* Item.serialize and Item.deserialize on the items of a bounded alphabet  *)
(***************************************************************************)
\* the longest name drawn
MaxNameLen == 3

\* the characters of the names: a letter, the two of the quality mark, a digit
NameChars == {"a", "-", "q", "2"}

\* the names: every string up to MaxNameLen, and a name that starts like a fluid
Names ==
    UNION { [1..n -> NameChars] : n \in 0..MaxNameLen } \cup {FluidPrefix \o <<"a">>}

\* the valid items: solids at tiers 1..5 and fluids at tier 1
Items ==
    { Item(n, q, FALSE) : n \in Names, q \in MIN_QUALITY..MAX_QUALITY }
        \cup { Fluid(n) : n \in Names }

InitItem ==
    /\ pc = "item"
    /\ it \in Items
    /\ data = None
    /\ parsed = None
    /\ config = None
    /\ recipe_map = EmptyDict
    /\ transformations = <<>>
    /\ iterations = 0
    /\ round = 0
    /\ item_costs = EmptyDict
    /\ item_to_weighted_transforms = EmptyDict
    /\ returned = EmptyDict
    /\ mutated = FALSE
    /\ rebuilt = FALSE

\* data = it.serialize()
SerializeItem ==
    /\ pc = "item"
    /\ pc' = "serialized"
    /\ data' = serialize(it)
    /\ UNCHANGED <<it, parsed>>
    /\ UNCHANGED <<controller_vars, caller_vars>>

\* Item.deserialize(data)
DeserializeData ==
    /\ pc = "serialized"
    /\ pc' = "deserialized"
    /\ parsed' = deserialize(data)
    /\ UNCHANGED <<it, data>>
    /\ UNCHANGED <<controller_vars, caller_vars>>

NextItem ==
    \/ SerializeItem
    \/ DeserializeData

SpecItem == InitItem /\ [][NextItem]_vars

(***************************************************************************)
(* Properties of compute_all_costs                                         *)
(***************************************************************************)
\* the transformations, by position, that output the item
Producers(item) ==
    {t \in 1..Len(transformations) : Has(transformations[t].outputs_per_sec, item)}

\* what the latest call of compute_all_costs gave
LastReturned == returned[Len(returned)][2]

\* the cost a returned list gives for the item
CostOf(costs, item) == costs[CHOOSE i \in 1..Len(costs) : costs[i].item = item].cost

\* C1 : the list compute_all_costs returns has exactly one entry for every item
\* of the terminal cost map and none for any other item; the entry carries the
\* item's cost from the terminal cost map and the list of (transformation, cost)
\* pairs recorded for the item by the final iterate(), which is empty exactly
\* when no transformation outputs the item.
C1_OneEntryPerItem ==
    (pc = "ready" /\ Len(returned) > 0 /\ ~LastReturned.raised) =>
        LET costs == LastReturned.costs
        IN  /\ \A item \in KeySet(item_costs) :
                   Cardinality({i \in 1..Len(costs) : costs[i].item = item}) = 1
            /\ \A i \in 1..Len(costs) :
                   /\ Has(item_costs, costs[i].item)
                   /\ costs[i].cost = Get(item_costs, costs[i].item)
                   /\ costs[i].transformation_costs
                          = GetOr(item_to_weighted_transforms, costs[i].item, <<>>)
                   /\ (costs[i].transformation_costs = <<>>)
                          <=> (Producers(costs[i].item) = {})

\* a returned list with an entry without transformations and an entry with two
C1_Witness ==
    /\ pc = "ready"
    /\ Len(returned) > 0
    /\ ~LastReturned.raised
    /\ \E i \in 1..Len(LastReturned.costs) :
           LastReturned.costs[i].transformation_costs = <<>>
    /\ \E i \in 1..Len(LastReturned.costs) :
           Len(LastReturned.costs[i].transformation_costs) >= 2

\* C2 : with machine_time_cost >= 0 and resource_base_cost >= 0 (every
\* configuration here), after every iteration every cost of the cost map is a
\* non-negative finite number or +infinity.
C2_CostsNonNegative ==
    round >= 1 => \A i \in 1..Len(item_costs) : Le(Zero, item_costs[i][2])

\* the items some transformation consumes or produces
MentionedItems ==
    UNION {KeySet(transformations[t].inputs_per_sec)
               \cup KeySet(transformations[t].outputs_per_sec) :
           t \in 1..Len(transformations)}

\* C3 : the initial cost map has exactly the items some transformation consumes
\* or produces as keys, each at resource_base_cost; after every iteration the
\* cost map has BASE_RESOURCE as a key at exactly resource_base_cost, whether
\* transformations output it cheaper, dearer, or do not mention it at all.
C3_BaseResourcePinned ==
    /\ (pc = "iterating" /\ round = 0) =>
           /\ KeySet(item_costs) = MentionedItems
           /\ \A i \in 1..Len(item_costs) : item_costs[i][2] = config.resource_base_cost
    /\ round >= 1 =>
           /\ Has(item_costs, BASE_RESOURCE)
           /\ Get(item_costs, BASE_RESOURCE) = config.resource_base_cost

\* after two iterations one transformation offers the base resource below
\* resource_base_cost and another above it
C3_Witness ==
    /\ round >= 2
    /\ Get(item_costs, BASE_RESOURCE) = config.resource_base_cost
    /\ \E t \in Producers(BASE_RESOURCE) :
           Lt(NewItemValue(config, item_costs, transformations[t], BASE_RESOURCE),
              config.resource_base_cost)
    /\ \E t \in Producers(BASE_RESOURCE) :
           Gt(NewItemValue(config, item_costs, transformations[t], BASE_RESOURCE),
              config.resource_base_cost)

\* C4 : an iteration computes every candidate from the cost map of before the
\* iteration, and the new cost of an item other than BASE_RESOURCE that some
\* transformation outputs is the minimum of its candidates: one candidate
\* equals it and none is below it.
C4_MinimumOfCandidates ==
    [][round' = round + 1 =>
          \A i \in 1..Len(item_costs') :
              LET item == item_costs'[i][1]
                  Candidate(t) == NewItemValue(config, item_costs, transformations[t], item)
              IN  (item # BASE_RESOURCE /\ Producers(item) # {}) =>
                      /\ \E t \in Producers(item) : Candidate(t) = item_costs'[i][2]
                      /\ \A t \in Producers(item) : Le(item_costs'[i][2], Candidate(t))]_vars

\* C5 (as claimed) : with recycling enabled the discount of an output item is a
\* quarter of the value of the outputs of the same name and strictly HIGHER
\* quality, times total_input_cost / total_output_cost, and 0 when
\* total_output_cost is not greater than 0.
C5_DiscountOverHigherQualities ==
    (pc = "iterating" /\ config.enable_recycling) =>
        \A t \in 1..Len(transformations) :
            \A item \in KeySet(transformations[t].outputs_per_sec) :
                LET T == transformations[t]
                    total_input_cost  == TotalCost(item_costs, T.inputs_per_sec)
                    total_output_cost == TotalCost(item_costs, T.outputs_per_sec)
                    higher == SelectSeq(T.outputs_per_sec,
                                  LAMBDA p : p[1].name = item.name
                                             /\ p[1].quality > item.quality)
                IN  Discount(config, item_costs, T, item)
                        = IF Gt(total_output_cost, Zero)
                          THEN Mul(Mul(Frac(1, 4), TotalCost(item_costs, higher)),
                                   Div(total_input_cost, total_output_cost))
                          ELSE Zero

\* C5 (amended) : with recycling enabled the discount of an output item is a
\* quarter of the value of the outputs of the same name and strictly LOWER
\* quality, times total_input_cost / total_output_cost, and 0 when
\* total_output_cost is zero; with recycling disabled it is 0.
C5_DiscountOverLowerQualities ==
    pc = "iterating" =>
        \A t \in 1..Len(transformations) :
            \A item \in KeySet(transformations[t].outputs_per_sec) :
                LET T == transformations[t]
                    total_input_cost  == TotalCost(item_costs, T.inputs_per_sec)
                    total_output_cost == TotalCost(item_costs, T.outputs_per_sec)
                    lower == SelectSeq(T.outputs_per_sec,
                                 LAMBDA p : p[1].name = item.name
                                            /\ p[1].quality < item.quality)
                IN  Discount(config, item_costs, T, item)
                        = IF ~config.enable_recycling \/ total_output_cost = Zero
                          THEN Zero
                          ELSE Mul(Mul(Frac(1, 4), TotalCost(item_costs, lower)),
                                   Div(total_input_cost, total_output_cost))

\* recycling is enabled and an output with lower tiers beside it has a positive
\* discount
C5_Witness ==
    /\ pc = "iterating"
    /\ config.enable_recycling
    /\ \E t \in 1..Len(transformations) :
           \E item \in KeySet(transformations[t].outputs_per_sec) :
               /\ \E p \in KeySet(transformations[t].outputs_per_sec) :
                      p.name = item.name /\ p.quality < item.quality
               /\ Gt(Discount(config, item_costs, transformations[t], item), Zero)

\* the configuration of scenario S6 : resource -> a with a quality effect of
\* 1/10, so that the tiers 4 and 5 of a come out at 9/10 and 1/10 per second
S6Config ==
    /\ config.recipes = <<MakeA4>>
    /\ config.machine_settings_available = <<QualityModule>>
    /\ config.enable_quality
    /\ config.machine_time_cost = One
    /\ config.resource_base_cost = One

\* C6 : the count of an output item is the sum of the rates of the outputs of
\* the same name and the same or a higher quality (all outputs of the name less
\* those of lower quality); in scenario S6 the lower tier costs (1 + 1)/(9/10 +
\* 1/10) = 2, not (1 + 1)/(9/10).
C6_CountPoolsHigherQualities ==
    /\ \A t \in 1..Len(transformations) :
           \A item \in KeySet(transformations[t].outputs_per_sec) :
               LET same  == SelectSeq(transformations[t].outputs_per_sec,
                                LAMBDA p : p[1].name = item.name)
                   lower == SelectSeq(same, LAMBDA p : p[1].quality < item.quality)
               IN  Add(Count(transformations[t], item), SumCounts(lower))
                       = SumCounts(same)
    /\ (S6Config /\ round >= 1) => Get(item_costs, Item(<<"a">>, 4, FALSE)) = Num(2)

\* scenario S6 after an iteration: a at tier 4 comes out at 9/10 per second, is
\* counted as 1 and costs 2
C6_Witness ==
    /\ S6Config
    /\ round >= 1
    /\ Get(transformations[1].outputs_per_sec, Item(<<"a">>, 4, FALSE)) = Frac(9, 10)
    /\ Get(transformations[1].outputs_per_sec, Item(<<"a">>, 5, FALSE)) = Frac(1, 10)
    /\ Count(transformations[1], Item(<<"a">>, 4, FALSE)) = One
    /\ Get(item_costs, Item(<<"a">>, 4, FALSE)) = Num(2)

\* a configuration without modules and bonuses
PlainConfig(recipes) ==
    /\ config.recipes = recipes
    /\ config.machine_settings_available = <<NoModule>>
    /\ config.mining_productivity = ZERO_BONUS
    /\ config.machines = Machines
    /\ config.recipe_bonuses = EmptyDict

\* C7 : the time cost of a transformation is machine_time_cost times 10 when
\* its recipe is mined and machine_time_cost otherwise: without bonuses the
\* mined ore of scenario S2 costs 10 * machine_time_cost + resource_base_cost
\* (11 for 1 and 1), and a, made from the resource without mining, costs
\* machine_time_cost + resource_base_cost.
C7_MiningTimesTen ==
    /\ (PlainConfig(<<MineOre>>) /\ round >= 1) =>
           Get(item_costs, Solid("o"))
               = Add(Mul(Num(10), config.machine_time_cost), config.resource_base_cost)
    /\ (PlainConfig(<<MakeA, AToB>>) /\ round >= 1) =>
           Get(item_costs, Solid("a"))
               = Add(config.machine_time_cost, config.resource_base_cost)

\* scenario S2 after an iteration: the ore costs 11
C7_Witness ==
    /\ PlainConfig(<<MineOre>>)
    /\ config.machine_time_cost = One
    /\ config.resource_base_cost = One
    /\ round >= 1
    /\ transformations[1].recipe.is_mining
    /\ Get(item_costs, Solid("o")) = Num(11)

\* an item other than BASE_RESOURCE that no transformation outputs
Unreachable(item) == item # BASE_RESOURCE /\ Producers(item) = {}

\* one more iterate() would change no cost
Converged ==
    /\ round >= 1
    /\ LET r == Iterate(config, transformations, item_costs, FALSE)
       IN  /\ ~r.raised
           /\ \A item \in KeySet(item_costs) :
                  Get(r.item_costs, item) = Get(item_costs, item)

\* C8 : unreachable items raise no error (a call raises only on a zero count);
\* an item other than BASE_RESOURCE that no transformation outputs costs
\* +infinity from the first iteration on; and once the costs have converged an
\* item whose only producing transformation consumes such an item at a positive
\* rate costs +infinity.
C8_UnreachableIsInfinite ==
    /\ (pc = "ready" /\ Len(returned) > 0 /\ LastReturned.raised) =>
           \E t \in 1..Len(transformations) :
               \E item \in KeySet(transformations[t].outputs_per_sec) :
                   Count(transformations[t], item) = Zero
    /\ round >= 1 =>
           \A item \in KeySet(item_costs) :
               Unreachable(item) => Get(item_costs, item) = Inf
    /\ Converged =>
           \A x \in KeySet(item_costs) :
               (/\ x # BASE_RESOURCE
                /\ \E t \in Producers(x) :
                       /\ Producers(x) = {t}
                       /\ \E y \in KeySet(transformations[t].inputs_per_sec) :
                              /\ Unreachable(y)
                              /\ Gt(Get(transformations[t].inputs_per_sec, y), Zero))
                   => Get(item_costs, x) = Inf

\* the configuration of scenario S1 : the one recipe a -> b, no modules,
\* machine_time_cost 1 and resource_base_cost 1
S1Config ==
    /\ PlainConfig(<<AToB>>)
    /\ ~config.enable_quality
    /\ ~config.enable_recycling
    /\ config.machine_time_cost = One
    /\ config.resource_base_cost = One

\* C9 (as claimed) : in scenario S1 compute_all_costs with 10 iterations returns
\* cost[a] = 1, cost[b] = 2 and cost[BASE_RESOURCE] = 1.
C9_S1CostsAsClaimed ==
    (S1Config /\ Has(returned, LongIterations)) =>
        LET result == Get(returned, LongIterations)
        IN  /\ ~result.raised
            /\ CostOf(result.costs, Solid("a")) = One
            /\ CostOf(result.costs, Solid("b")) = Num(2)
            /\ CostOf(result.costs, BASE_RESOURCE) = One

\* C9 (amended) : in scenario S1 compute_all_costs with 10 iterations returns
\* cost[a] = +infinity and cost[b] = +infinity, since no transformation outputs
\* a, and cost[BASE_RESOURCE] = 1.
C9_S1CostsInfinite ==
    (S1Config /\ Has(returned, LongIterations)) =>
        LET result == Get(returned, LongIterations)
        IN  /\ ~result.raised
            /\ CostOf(result.costs, Solid("a")) = Inf
            /\ CostOf(result.costs, Solid("b")) = Inf
            /\ CostOf(result.costs, BASE_RESOURCE) = One

\* scenario S1 has returned from the call with 10 iterations
C9_Witness ==
    /\ S1Config
    /\ LongIterations = 10
    /\ Has(returned, LongIterations)
    /\ ~Get(returned, LongIterations).raised
    /\ Len(Get(returned, LongIterations).costs) = 3
    /\ CostOf(Get(returned, LongIterations).costs, Solid("b")) = Inf

\* the calls with n and n + 1 iterations have both returned
BothReturned(n) ==
    /\ Has(returned, n)
    /\ Has(returned, n + 1)
    /\ ~Get(returned, n).raised
    /\ ~Get(returned, n + 1).raised

NonIncreasingStart ==
    /\ ~config.enable_recycling
    /\ \A t \in 1..Len(transformations) :
           /\ \A i \in 1..Len(transformations[t].inputs_per_sec) :
                  Le(Zero, transformations[t].inputs_per_sec[i][2])
           /\ \A i \in 1..Len(transformations[t].outputs_per_sec) :
                  Le(Zero, transformations[t].outputs_per_sec[i][2])
    /\ LET r == Iterate(config, transformations,
                        InitialCosts(transformations, config.resource_base_cost), FALSE)
       IN  /\ ~r.raised
           /\ \A i \in 1..Len(r.item_costs) :
                  Le(r.item_costs[i][2], config.resource_base_cost)

C11_CountNeverZero ==
    /\ \A t \in 1..Len(transformations) :
           \A item \in KeySet(transformations[t].outputs_per_sec) :
               Count(transformations[t], item) # Zero
    /\ \A k \in 1..Len(returned) : ~returned[k][2].raised

\* C12 : for every constructed transformation no item is a key of both
\* inputs_per_sec and outputs_per_sec.
C12_NoItemConsumedAndProduced ==
    \A t \in 1..Len(transformations) :
        KeySet(transformations[t].inputs_per_sec)
            \cap KeySet(transformations[t].outputs_per_sec) = {}

\* C13 : quality mass conservation : for every transformation and every
\* non-fluid output with pre-quality rate rho, the rates of outputs_per_sec for
\* that name over the tiers from the recipe's quality to 5 add up to rho.
C13_QualityMassConserved ==
    \A t \in 1..Len(transformations) :
        LET T  == transformations[t]
            zq == PreQualityOutputs(T.recipe, config.recipe_bonuses, T.machine,
                                    T.machine_settings, config.mining_productivity)
        IN  \A i \in 1..Len(zq) :
                ~zq[i][1].is_fluid =>
                    SumCounts(SelectSeq(T.outputs_per_sec,
                                  LAMBDA p : /\ ~p[1].is_fluid
                                             /\ p[1].name = zq[i][1].name
                                             /\ p[1].quality >= T.recipe.quality))
                        = zq[i][2]

\* every recipe of the configuration is at quality 1 and lists items of quality 1
RecipesAtQualityOne ==
    \A i \in 1..Len(config.recipes) :
        /\ config.recipes[i].quality = 1
        /\ \A item \in KeySet(config.recipes[i].inputs)
                         \cup KeySet(config.recipes[i].outputs)
                         \cup KeySet(config.recipes[i].outputs_no_productivity) :
               item.quality = 1

\* C14 : with enable_quality false and every recipe and recipe item at quality 1
\* no item of a quality above 1 is a key of the cost map, whatever the base
\* effect of the machine, the recipe bonuses and the mining bonus are.
C14_NoQualityTiersWhenDisabled ==
    (~config.enable_quality /\ RecipesAtQualityOne) =>
        \A item \in KeySet(item_costs) : item.quality = 1

\* C15 : with enable_recycling false the discount is 0 for every transformation
\* and output item in every iteration, and every candidate is
\* (time_cost + total_input_cost) / count.
C15_NoDiscountWithoutRecycling ==
    (pc = "iterating" /\ ~config.enable_recycling) =>
        \A t \in 1..Len(transformations) :
            \A item \in KeySet(transformations[t].outputs_per_sec) :
                LET T == transformations[t]
                IN  /\ Discount(config, item_costs, T, item) = Zero
                    /\ ~NewItemValueRaises(config, item_costs, T, item) =>
                           NewItemValue(config, item_costs, T, item)
                               = Div(Add(IF T.recipe.is_mining
                                         THEN Mul(config.machine_time_cost, Num(10))
                                         ELSE config.machine_time_cost,
                                         TotalCost(item_costs, T.inputs_per_sec)),
                                     Count(T, item))

\* recycling is disabled and, after an iteration, an output with valued lower
\* tiers beside it, which recycling would discount, has a finite candidate
C15_Witness ==
    /\ pc = "iterating"
    /\ ~config.enable_recycling
    /\ round >= 1
    /\ \E t \in 1..Len(transformations) :
           \E item \in KeySet(transformations[t].outputs_per_sec) :
               /\ Gt(TotalCost(item_costs,
                               DiscountedOutputs(transformations[t], item)), Zero)
               /\ ~NewItemValueRaises(config, item_costs, transformations[t], item)
               /\ IsFinite(NewItemValue(config, item_costs, transformations[t], item))

\* C16 : Item.deserialize(it.serialize()) == it for every valid Item, whatever
\* its name, at tiers 1..5 and for fluids at tier 1; serialize gives
\* "fluid-<name>" for a fluid, "<name>" at tier 1 and "<name>-q<quality>" otherwise.
C16_RoundTrip ==
    /\ pc \in {"serialized", "deserialized"} =>
           data = IF it.is_fluid THEN FluidPrefix \o it.name
                  ELSE IF it.quality = 1 THEN it.name
                  ELSE it.name \o <<"-", "q", QualityDigit(it.quality)>>
    /\ pc = "deserialized" => parsed = it

\* the round trip of the items whose tier-1 form cannot be read as another item's
C16_RoundTripOfPlainNames ==
    (/\ pc = "deserialized"
     /\ it.is_fluid \/ (~StartsWith(it.name, FluidPrefix) /\ QualityMarks(it.name) = {}))
        => parsed = it

\* C17 : building the recipe map fails with an error whenever two recipes share
\* a name after quality expansion and recycling filtering: a Controller is never
\* constructed from such recipes, silently keeping one of them.
C17_DuplicateNamesRejected ==
    pc # "new" =>
        \A i, j \in 1..Len(KeptRecipes(config)) :
            i # j => KeptRecipes(config)[i].name # KeptRecipes(config)[j].name

\* C18 : changing any field of the source Configuration after constructing a
\* Controller does not change a later compute_all_costs result: a call that
\* completes gives what the same call gave before.
C18_LaterResultsUnchanged ==
    [][(pc # "ready" /\ pc' = "ready" /\ Has(returned, iterations))
           => Get(returned', iterations) = Get(returned, iterations)]_vars

\* two results of compute_all_costs give every item the same cost
SameCosts(a, b) ==
    /\ a.raised = b.raised
    /\ ~a.raised =>
           /\ {a.costs[i].item : i \in 1..Len(a.costs)}
                  = {b.costs[i].item : i \in 1..Len(b.costs)}
           /\ \A i \in 1..Len(a.costs) :
                  a.costs[i].cost = CostOf(b.costs, a.costs[i].item)

\* the call of the second controller that completes in this step repeats a call
\* of the first
SecondResult ==
    /\ rebuilt
    /\ pc \in {"iterating", "reported"}
    /\ pc' = "ready"
    /\ Has(returned, iterations)

\* no two recipes of the configuration share a name
DistinctNames ==
    \A i, j \in 1..Len(config.recipes) :
        i # j => config.recipes[i].name # config.recipes[j].name

\* C19 : the returned cost of every item is the same for any permutation of the
\* recipes list and of machine_settings_available, at the same iteration count.
C19_OrderOfListsIrrelevant ==
    [][SecondResult
           => SameCosts(Get(returned', iterations), Get(returned, iterations))]_vars

\* the same for the configurations whose recipes have distinct names
C19_OrderIrrelevantForDistinctNames ==
    [][(SecondResult /\ DistinctNames)
           => SameCosts(Get(returned', iterations), Get(returned, iterations))]_vars

\* the list is ordered by non-decreasing value
NonDecreasing(transformation_costs) ==
    \A j \in 1..(Len(transformation_costs) - 1) :
        Le(transformation_costs[j][2], transformation_costs[j + 1][2])

\* the smallest value of a list that has one is the cost
SmallestIs(transformation_costs, cost) ==
    transformation_costs # <<>> =>
        /\ \E j \in 1..Len(transformation_costs) : transformation_costs[j][2] = cost
        /\ \A j \in 1..Len(transformation_costs) : Le(cost, transformation_costs[j][2])

\* every ItemCost of every list returned so far
ReturnedItemCosts ==
    UNION { {returned[k][2].costs[i] : i \in 1..Len(returned[k][2].costs)} :
            k \in {n \in 1..Len(returned) : ~returned[n][2].raised} }

\* C20 : every returned transformation_costs is ordered by non-decreasing value,
\* and for every item whose returned cost is finite the smallest value of its
\* transformation_costs equals the returned cost.
C20_SortedWithCostFirst ==
    \A e \in ReturnedItemCosts :
        /\ NonDecreasing(e.transformation_costs)
        /\ IsFinite(e.cost) => SmallestIs(e.transformation_costs, e.cost)

\* the same with the base resource, whose cost line 232 overwrites, set aside
C20_SortedWithCostFirstButBase ==
    \A e \in ReturnedItemCosts :
        /\ NonDecreasing(e.transformation_costs)
        /\ (IsFinite(e.cost) /\ e.item # BASE_RESOURCE)
               => SmallestIs(e.transformation_costs, e.cost)

\* the same for the lists that hold no NaN
C20_SortedWithCostFirstWithoutNaN ==
    \A e \in ReturnedItemCosts :
        (\A j \in 1..Len(e.transformation_costs) : ~IsNaN(e.transformation_costs[j][2]))
            => /\ NonDecreasing(e.transformation_costs)
               /\ (IsFinite(e.cost) /\ e.item # BASE_RESOURCE)
                      => SmallestIs(e.transformation_costs, e.cost)

\* C21 : no value recorded in a transformation_costs list that compute_all_costs
\* returns is NaN, also for a transformation whose input cost and output cost
\* are both +infinity while enable_recycling is true.
C21_NoNaNRecorded ==
    \A e \in ReturnedItemCosts :
        \A j \in 1..Len(e.transformation_costs) : ~IsNaN(e.transformation_costs[j][2])

\* the same for the configurations without recycling
C21_NoNaNRecordedWithoutRecycling ==
    ~config.enable_recycling =>
        \A e \in ReturnedItemCosts :
            \A j \in 1..Len(e.transformation_costs) :
                ~IsNaN(e.transformation_costs[j][2])

\* the items, not yet in done, all of whose producers consume items of done only
Settled(done) ==
    { i \in MentionedItems \ done :
        \A t \in Producers(i) : KeySet(transformations[t].inputs_per_sec) \subseteq done }

\* the depth of the item in the item-production graph, counted from done at
\* depth k : the longest path to it from an item that nothing produces;
\* -1 on a cycle or behind one
RECURSIVE DepthFrom(_, _, _)
DepthFrom(item, done, k) ==
    LET new == Settled(done)
    IN  IF item \in new THEN k
        ELSE IF new = {} THEN -1
        ELSE DepthFrom(item, done \cup new, k + 1)

DepthOf(item) == DepthFrom(item, {}, 0)

\* the item-production graph has no cycle
Acyclic == \A item \in MentionedItems : DepthOf(item) >= 0

\* an iterate() completes in this step
RoundCompletes == pc = "iterating" /\ round' = round + 1

\* C22 (as claimed) : when the item-production graph has no cycle, the cost of
\* an item of depth d after round d equals its cost after every later round,
\* with or without enable_recycling and quality tiers.
C22_SettledAfterDepthRounds ==
    [][(RoundCompletes /\ Acyclic) =>
           \A item \in MentionedItems :
               DepthOf(item) <= round =>
                   Get(item_costs', item) = Get(item_costs, item)]_vars

\* one round later, in every configuration
C22_SettledOneRoundLater ==
    [][(RoundCompletes /\ Acyclic) =>
           \A item \in MentionedItems :
               DepthOf(item) + 1 <= round =>
                   Get(item_costs', item) = Get(item_costs, item)]_vars

\* one round later, without recycling
C22_SettledOneRoundLaterWithoutRecycling ==
    [][(RoundCompletes /\ Acyclic /\ ~config.enable_recycling) =>
           \A item \in MentionedItems :
               DepthOf(item) + 1 <= round =>
                   Get(item_costs', item) = Get(item_costs, item)]_vars

\* without recycling and without a cycle, an item of depth 2 has a finite cost
\* after three rounds, and a further round follows
C22_Witness ==
    /\ pc = "iterating"
    /\ ~config.enable_recycling
    /\ round >= 3
    /\ Acyclic
    /\ \E item \in MentionedItems :
           DepthOf(item) = 2 /\ IsFinite(Get(item_costs, item))

\* the entries the list records for the item under the name of the transformation
EntriesOf(transformation_costs, transformation) ==
    {j \in 1..Len(transformation_costs) :
        transformation_costs[j][1] = transformation.name}

\* the reporting round is round n + 1, updates the cost map as a plain round
\* does, and records for every (transformation, output item) pair exactly one
\* entry, the candidate computed from the costs after round n
ReportingRound ==
    /\ round = iterations
    /\ round' = iterations + 1
    /\ item_costs' = Iterate(config, transformations, item_costs, FALSE).item_costs
    /\ KeySet(item_to_weighted_transforms')
           = UNION {KeySet(transformations[t].outputs_per_sec) :
                       t \in 1..Len(transformations)}
    /\ \A item \in KeySet(item_to_weighted_transforms') :
           LET recorded == Get(item_to_weighted_transforms', item)
           IN  /\ Len(recorded) = Cardinality(Producers(item))
               /\ \A t \in Producers(item) :
                      \E j \in 1..Len(recorded) :
                          /\ EntriesOf(recorded, transformations[t]) = {j}
                          /\ recorded[j][2]
                                 = NewItemValue(config, item_costs, transformations[t], item)

\* a plain round is one of the first n
PlainRound == round < iterations /\ round' = round + 1

\* what is returned is the cost map after round n + 1 with the recorded lists
ReturnsAfterReport ==
    /\ round = iterations + 1
    /\ LET result == Get(returned', iterations)
       IN  /\ ~result.raised
           /\ Len(result.costs) = Len(item_costs)
           /\ \A i \in 1..Len(item_costs) :
                  /\ result.costs[i].item = item_costs[i][1]
                  /\ result.costs[i].cost = item_costs[i][2]
                  /\ result.costs[i].transformation_costs
                         = GetOr(item_to_weighted_transforms, item_costs[i][1], <<>>)

\* C23 : compute_all_costs(n) applies exactly n + 1 update rounds to the cost
\* map, n plain rounds and then one reporting round; the returned costs are the
\* state after round n + 1, and the reporting round records exactly one
\* (transformation name, candidate) entry for every (transformation, output
\* item) pair, computed from the costs after round n.
C23_RoundsAndReport ==
    [][/\ (pc = "ready" /\ pc' = "iterating") => round' = 0
       /\ (pc = "iterating" /\ pc' = "iterating") => PlainRound
       /\ (pc = "iterating" /\ pc' = "reported") => ReportingRound
       /\ (pc = "reported" /\ pc' = "ready") => ReturnsAfterReport]_vars

\* a call with n >= 2 has reported two candidates for one item
C23_Witness ==
    /\ pc = "reported"
    /\ iterations >= 2
    /\ \E i \in 1..Len(item_to_weighted_transforms) :
           /\ Len(item_to_weighted_transforms[i][2]) >= 2
           /\ item_to_weighted_transforms[i][2][1][2]
                  # item_to_weighted_transforms[i][2][2][2]

\* lines 37-53 for a built transformation : <<inputs_per_sec, zero_quality_output_rate>>
\* as they are before the netting
BeforeNetting(T) ==
    LET extra_effects == ExtraEffects(T.recipe, config.recipe_bonuses, T.machine,
                                      T.machine_settings, config.mining_productivity)
        rate == Rate(T.recipe, T.machine, extra_effects)
    IN  <<InputsBeforeNetting(T.recipe, rate),
          ZeroQualityOutputRate(T.recipe, rate,
                                ProductivityMultiplier(T.recipe, extra_effects))>>

\* the pre-quality outputs of a built transformation after the netting
AfterNetting(T) ==
    PreQualityOutputs(T.recipe, config.recipe_bonuses, T.machine, T.machine_settings,
                      config.mining_productivity)

\* the item, consumed at rate a and produced before quality at rate b, is left
\* on the larger side only, at the difference
NettedTo(T, item, a, b) ==
    /\ Gt(a, b) => /\ Has(T.inputs_per_sec, item)
                   /\ Get(T.inputs_per_sec, item) = Sub(a, b)
                   /\ ~Has(AfterNetting(T), item)
    /\ Gt(b, a) => /\ ~Has(T.inputs_per_sec, item)
                   /\ Has(AfterNetting(T), item)
                   /\ Get(AfterNetting(T), item) = Sub(b, a)
    /\ a = b => /\ ~Has(T.inputs_per_sec, item)
                /\ ~Has(AfterNetting(T), item)

\* C24 : every item that is both an input and a pre-quality output of a
\* transformation, at input rate a and output rate b, is after construction
\* only an input at a - b when a > b, only an output at b - a when b > a, and
\* on neither side when a = b.
C24_CatalystsNetted ==
    \A t \in 1..Len(transformations) :
        LET T == transformations[t]
            before == BeforeNetting(T)
        IN  \A item \in KeySet(before[1]) \cap KeySet(before[2]) :
                NettedTo(T, item, Get(before[1], item), Get(before[2], item))

\* the same for the items the recipe lists among its outputs
C24_ListedCatalystsNetted ==
    \A t \in 1..Len(transformations) :
        LET T == transformations[t]
            before == BeforeNetting(T)
        IN  \A item \in KeySet(before[1]) \cap KeySet(T.recipe.outputs) :
                NettedTo(T, item, Get(before[1], item), Get(before[2], item))

\* the recipe of two a into three a is built at rate 1 into a transformation
\* without inputs that outputs one a per second
C24_BreedNetted ==
    \A t \in 1..Len(transformations) :
        (/\ transformations[t].recipe = Breed
         /\ BeforeNetting(transformations[t])[1] = <<<<Solid("a"), Num(2)>>>>
         /\ BeforeNetting(transformations[t])[2] = <<<<Solid("a"), Num(3)>>>>)
            => /\ transformations[t].inputs_per_sec = EmptyDict
               /\ AfterNetting(transformations[t]) = <<<<Solid("a"), One>>>>

\* q x 0.9 x 0.1^(k-1) : the share of the k-th tier above the recipe's
RECURSIVE TierShare(_, _)
TierShare(q, k) ==
    IF k = 1 THEN Mul(q, Frac(9, 10)) ELSE Mul(TierShare(q, k - 1), Frac(1, 10))

\* q minus the shares of the tiers t + 1 .. 4
RECURSIVE LeftOver(_, _, _)
LeftOver(q, t, k) ==
    IF t + k >= MAX_QUALITY THEN q ELSE Sub(LeftOver(q, t, k + 1), TierShare(q, k))

\* what the claim gives for a tier of a non-fluid output of pre-quality rate rho
\* of a recipe at tier t; None for a tier that is not emitted
ClaimedRate(rho, q, t, tier) ==
    IF tier = t THEN Mul(rho, Sub(One, q))
    ELSE IF tier < t \/ q = Zero THEN None
    ELSE IF tier < MAX_QUALITY THEN Mul(rho, TierShare(q, tier - t))
    ELSE Mul(rho, LeftOver(q, t, 1))

\* the total quality effect of a built transformation, clamped at 0
QualityOf(T) ==
    Clamp(ExtraEffects(T.recipe, config.recipe_bonuses, T.machine, T.machine_settings,
                       config.mining_productivity).quality, Zero, Inf)

\* the rate of the item among the outputs; None when it is not emitted
EmittedRate(T, item) ==
    IF Has(T.outputs_per_sec, item) THEN Get(T.outputs_per_sec, item) ELSE None

\* C25 : with q = max(E.quality, 0), a non-fluid output with pre-quality rate rho
\* of a recipe at tier t is emitted at tier t with rate rho x (1 - q), at tier
\* t + k below tier 5 with rate rho x q x 0.9 x 0.1^(k-1), and at tier 5 with
\* the remaining mass q minus everything given to the tiers t + 1 .. 4; when
\* q = 0 only tier t is emitted; a fluid is emitted unchanged at quality 1.
C25_QualityShape ==
    \A t \in 1..Len(transformations) :
        LET T  == transformations[t]
            zq == AfterNetting(T)
        IN  /\ \A i \in 1..Len(zq) :
                   IF zq[i][1].is_fluid
                   THEN EmittedRate(T, Fluid(zq[i][1].name)) = zq[i][2]
                   ELSE \A tier \in MIN_QUALITY..MAX_QUALITY :
                            EmittedRate(T, Item(zq[i][1].name, tier, FALSE))
                                = ClaimedRate(zq[i][2], QualityOf(T), T.recipe.quality, tier)
            /\ \A item \in KeySet(T.outputs_per_sec) :
                   /\ \E i \in 1..Len(zq) :
                          zq[i][1].name = item.name /\ zq[i][1].is_fluid = item.is_fluid
                   /\ item.quality \in MIN_QUALITY..MAX_QUALITY

\* a transformation of a tier-1 and one of a tier-4 recipe with a quality effect
\* strictly between 0 and 1 and a non-fluid output have been built
C25_Witness ==
    /\ pc = "ready"
    /\ \A tier \in {1, 4} :
        \E t \in 1..Len(transformations) :
           /\ transformations[t].recipe.quality = tier
           /\ Gt(QualityOf(transformations[t]), Zero)
           /\ Lt(QualityOf(transformations[t]), One)
           /\ \E item \in KeySet(transformations[t].outputs_per_sec) :
                  item.quality = MAX_QUALITY

\* the recipe has a non-fluid input and a non-fluid output and does not consume
\* the base resource
QualityEligible(recipe) ==
    /\ \E i \in 1..Len(recipe.inputs) : ~recipe.inputs[i][1].is_fluid
    /\ \E i \in 1..Len(recipe.outputs) : ~recipe.outputs[i][1].is_fluid
    /\ \A i \in 1..Len(recipe.inputs) : recipe.inputs[i][1] # BASE_RESOURCE

\* the items of the counts at tier q, fluids at tier 1, names and flags kept
AtTier(counts, q) ==
    [i \in 1..Len(counts) |->
        <<[name |-> counts[i][1].name,
           quality |-> IF counts[i][1].is_fluid THEN 1 ELSE q,
           is_fluid |-> counts[i][1].is_fluid],
          counts[i][2]>>]

\* the q-th copy as the claim describes it
ClaimedCopy(recipe, q) ==
    [recipe EXCEPT !.name = recipe.name \o <<"-", "q">> \o IntToStr(q),
                   !.quality = q,
                   !.inputs = AtTier(recipe.inputs, q),
                   !.outputs = AtTier(recipe.outputs, q)]

\* the list the claim describes
RECURSIVE ClaimedQualityRecipes(_)
ClaimedQualityRecipes(recipes) ==
    IF recipes = <<>> THEN <<>>
    ELSE (IF QualityEligible(recipes[1])
          THEN [q \in 1..5 |-> ClaimedCopy(recipes[1], q)]
          ELSE <<recipes[1]>>)
         \o ClaimedQualityRecipes(Tail(recipes))

\* C26 : with enable_quality true a recipe is replaced by five copies exactly
\* when it has a non-fluid input, a non-fluid output and BASE_RESOURCE is not
\* among its inputs, and is kept once unchanged otherwise; the q-th copy is
\* named "<orig>-q<q>", has quality q, and its input and output items keep name
\* and fluid flag, at quality q for non-fluids and quality 1 for fluids.
C26_QualityCopies ==
    (pc # "new" /\ config.enable_quality) =>
        /\ generate_quality_recipes(config.recipes) = ClaimedQualityRecipes(config.recipes)
        /\ \A i \in 1..Len(recipe_map) :
               \E j \in 1..Len(ClaimedQualityRecipes(config.recipes)) :
                   recipe_map[i][2] = ClaimedQualityRecipes(config.recipes)[j]
        /\ config.enable_recycling =>
               \A j \in 1..Len(ClaimedQualityRecipes(config.recipes)) :
                   Has(recipe_map, ClaimedQualityRecipes(config.recipes)[j].name)

\* a controller was built with enable_quality from a recipe the base resource
\* keeps single and a recipe with a fluid input that got its five copies
C26_Witness ==
    /\ pc = "ready"
    /\ config.enable_quality
    /\ \E i, j \in 1..Len(config.recipes) :
           /\ ~QualityEligible(config.recipes[i])
           /\ Has(recipe_map, config.recipes[i].name)
           /\ QualityEligible(config.recipes[j])
           /\ \E k \in 1..Len(config.recipes[j].inputs) :
                  config.recipes[j].inputs[k][1].is_fluid
           /\ \A q \in 1..5 :
                  Has(recipe_map, config.recipes[j].name \o <<"-", "q">> \o IntToStr(q))

\* the recipes of the configuration, quality-expanded when enable_quality is set
ExpandedRecipes ==
    IF config.enable_quality THEN generate_quality_recipes(config.recipes)
    ELSE config.recipes

\* the recycling filter lets the recipe through
PassesRecyclingFilter(recipe) ==
    \/ config.enable_recycling
    \/ ~Contains(recipe.name, RecyclingSuffix)
    \/ Contains(recipe.name, Scrap)

\* the recipe map holds exactly the expanded recipes that pass the filter, each
\* under its name
HoldsFilteredRecipes ==
    /\ {recipe_map[i][2] : i \in 1..Len(recipe_map)}
           = {ExpandedRecipes[i] : i \in {j \in 1..Len(ExpandedRecipes) :
                                             PassesRecyclingFilter(ExpandedRecipes[j])}}
    /\ \A i \in 1..Len(recipe_map) : recipe_map[i][1] = recipe_map[i][2].name

\* C27 : with enable_recycling false the recipe map contains exactly the
\* (possibly quality-expanded) recipes whose name does not contain "-recycling"
\* or does contain "scrap"; with enable_recycling true it contains every recipe.
C27_RecyclingFilter == pc # "new" => HoldsFilteredRecipes

\* the same for the configurations whose recipes have distinct names
C27_RecyclingFilterForDistinctNames == (pc # "new" /\ DistinctNames) => HoldsFilteredRecipes

\* the module or the beacon effect of the settings has a productivity component > 0
UsesProductivity(settings) ==
    \/ Gt(settings.module.productivity, Zero)
    \/ (~settings.beacon.none /\ Gt(settings.beacon.effect.productivity, Zero))

\* the module or the beacon effect of the settings has a quality component > 0
UsesQuality(settings) ==
    \/ Gt(settings.module.quality, Zero)
    \/ (~settings.beacon.none /\ Gt(settings.beacon.effect.quality, Zero))

\* the pairs <<position in the recipe map, position in the settings>> that pass
\* the three tests of the claim
ClaimedPairs ==
    { p \in (1..Len(recipe_map)) \X (1..Len(config.machine_settings_available)) :
        LET recipe   == recipe_map[p[1]][2]
            settings == config.machine_settings_available[p[2]]
        IN  /\ Has(config.machines, recipe.category)
            /\ ~(UsesProductivity(settings) /\ ~recipe.allow_productivity)
            /\ ~(UsesQuality(settings)
                 /\ (~config.enable_quality \/ ~recipe.allow_quality)) }

\* the number of claimed pairs that come before or at the pair p, recipe-major
RankOf(p) ==
    Cardinality({o \in ClaimedPairs : o[1] < p[1] \/ (o[1] = p[1] /\ o[2] <= p[2])})

\* C28 : Controller.transformations holds, in recipe-major then settings order,
\* exactly one transformation for each (recipe, machine_settings) pair such that
\* the recipe's category has a machine, not (the settings use productivity and
\* the recipe disallows it) and not (the settings use quality and (enable_quality
\* is false or the recipe disallows it)); any other pair is skipped without error.
C28_TransformationsBuilt ==
    pc # "new" =>
        /\ Len(transformations) = Cardinality(ClaimedPairs)
        /\ \A p \in ClaimedPairs :
               LET T == transformations[RankOf(p)]
               IN  /\ T.recipe = recipe_map[p[1]][2]
                   /\ T.machine_settings = config.machine_settings_available[p[2]]
                   /\ T.machine = Get(config.machines, T.recipe.category)

\* a controller was built where each of the three tests skipped a pair and
\* where beacons decided
C28_Witness ==
    /\ pc = "ready"
    /\ config.enable_quality
    /\ \E i, j, k \in 1..Len(recipe_map) :
           /\ ~Has(config.machines, recipe_map[i][2].category)
           /\ ~recipe_map[j][2].allow_productivity
           /\ ~recipe_map[k][2].allow_quality
    /\ \E s, u \in 1..Len(config.machine_settings_available) :
           /\ ~Gt(config.machine_settings_available[s].module.productivity, Zero)
           /\ UsesProductivity(config.machine_settings_available[s])
           /\ ~Gt(config.machine_settings_available[u].module.quality, Zero)
           /\ UsesQuality(config.machine_settings_available[u])
    /\ Len(transformations) > 0
    /\ Len(transformations) < Len(recipe_map) * Len(config.machine_settings_available)

\* the entries of the counts whose item has the name and the fluid flag of item
OfName(counts, item) ==
    SelectSeq(counts, LAMBDA p : p[1].name = item.name /\ p[1].is_fluid = item.is_fluid)

\* the items of the recipe's outputs and outputs_no_productivity, at the tier of
\* the recipe
ProducedItems(recipe) ==
    { MakeItem(p[1].name, recipe.quality, p[1].is_fluid) :
        p \in {recipe.outputs[i] : i \in 1..Len(recipe.outputs)}
               \cup {recipe.outputs_no_productivity[i] :
                         i \in 1..Len(recipe.outputs_no_productivity)} }

\* rate x (outputs[item] x prod_mul + outputs_no_productivity[item])
ClaimedOutputRate(T, item) ==
    LET E        == ExtraEffects(T.recipe, config.recipe_bonuses, T.machine,
                                 T.machine_settings, config.mining_productivity)
        rate     == Rate(T.recipe, T.machine, E)
        prod_mul == Clamp(Add(One, E.productivity), Zero,
                          Add(One, T.recipe.max_productivity))
    IN  Mul(rate, Add(Mul(SumCounts(OfName(T.recipe.outputs, item)), prod_mul),
                      SumCounts(OfName(T.recipe.outputs_no_productivity, item))))

\* the transformation has total quality effect 0 and the item is produced by
\* its recipe and is not among its inputs
PlainOutput(T, item) ==
    /\ QualityOf(T) = Zero
    /\ item \in ProducedItems(T.recipe)
    /\ OfName(T.recipe.inputs, item) = <<>>

\* C29 : with total quality effect 0, for every transformation (also of a
\* quality-expanded recipe copy at tiers 2..5) and every non-catalyst output
\* item, the emitted rate is
\* rate x (outputs[item] x prod_mul + outputs_no_productivity[item]) : the
\* non-productive part is added to the productive part and never replaces it,
\* and an item only in outputs_no_productivity is emitted at count x rate.
C29_NoProductivityAdded ==
    \A t \in 1..Len(transformations) :
        \A item \in ProducedItems(transformations[t].recipe) :
            PlainOutput(transformations[t], item) =>
                EmittedRate(transformations[t], item)
                    = ClaimedOutputRate(transformations[t], item)

\* the same for the recipes that do not list a non-fluid item both in outputs
\* and in outputs_no_productivity, and for every recipe at tier 1
C29_NoProductivityAddedApart ==
    \A t \in 1..Len(transformations) :
        \A item \in ProducedItems(transformations[t].recipe) :
            /\ PlainOutput(transformations[t], item)
            /\ \/ transformations[t].recipe.quality = MIN_QUALITY
               \/ item.is_fluid
               \/ OfName(transformations[t].recipe.outputs, item) = <<>>
               \/ OfName(transformations[t].recipe.outputs_no_productivity, item) = <<>>
            => EmittedRate(transformations[t], item)
                   = ClaimedOutputRate(transformations[t], item)

\* a transformation of a tier 1 recipe emits the sum of a productive and a
\* non-productive part, with a productivity bonus in effect
C29_Witness ==
    \E t \in 1..Len(transformations) :
        \E item \in ProducedItems(transformations[t].recipe) :
            /\ PlainOutput(transformations[t], item)
            /\ OfName(transformations[t].recipe.outputs, item) # <<>>
            /\ OfName(transformations[t].recipe.outputs_no_productivity, item) # <<>>
            /\ Gt(transformations[t].machine_settings.module.productivity, Zero)
            /\ EmittedRate(transformations[t], item)
                   = ClaimedOutputRate(transformations[t], item)

\* the same for the transformations whose pre-quality outputs have no two
\* entries of one name
C25_QualityShapeOfDistinctNames ==
    \A t \in 1..Len(transformations) :
        LET T  == transformations[t]
            zq == AfterNetting(T)
        IN  (\A i, j \in 1..Len(zq) : zq[i][1].name = zq[j][1].name => i = j) =>
                \A i \in 1..Len(zq) :
                    IF zq[i][1].is_fluid
                    THEN EmittedRate(T, Fluid(zq[i][1].name)) = zq[i][2]
                    ELSE \A tier \in MIN_QUALITY..MAX_QUALITY :
                             EmittedRate(T, Item(zq[i][1].name, tier, FALSE))
                                 = ClaimedRate(zq[i][2], QualityOf(T), T.recipe.quality, tier)

\* compute_all_costs is between two rounds or after the reporting round
InRounds(at) == at \in {"iterating", "reported"}

\* the items that some transformation consumes or produces
TransformedItems ==
    UNION { KeySet(transformations[t].inputs_per_sec)
                \cup KeySet(transformations[t].outputs_per_sec) :
            t \in 1..Len(transformations) }

\* C30 : in every round, the first and the reporting round included, every Item
\* that is a key of a transformation's inputs_per_sec or outputs_per_sec is a key
\* of the cost map being read, and a later round never removes a key that was
\* present, so that no cost lookup fails.
C30_CostsCoverItems ==
    [][ InRounds(pc') =>
            /\ TransformedItems' \subseteq KeySet(item_costs')
            /\ InRounds(pc) => KeySet(item_costs) \subseteq KeySet(item_costs') ]_vars

\* after the reporting round of a call with two rounds before it, the map has
\* an item that no transformation produces, and the base resource that no
\* transformation consumes
C30_Witness ==
    /\ pc = "reported"
    /\ round >= 3
    /\ TransformedItems \subseteq KeySet(item_costs)
    /\ \E item \in TransformedItems :
           \A t \in 1..Len(transformations) :
               ~Has(transformations[t].outputs_per_sec, item)
    /\ BASE_RESOURCE \in KeySet(item_costs) \ TransformedItems

=============================================================================
